---- MODULE Spec2Model ----
(***************************************************************************)
(* Model of perf_test_with_resize_restart/collect_tps_and_resize.py:       *)
(* PerformanceCollector.run (the orchestrator), ResizeController           *)
(* .resize_controller (the configuration sequencer, one daemon thread per  *)
(* workload-class run), BenchmarkRunner.run_test_cases (the runner, one    *)
(* daemon thread per run) and the pgbench subprocess the runner streams.   *)
(*                                                                         *)
(* Time is abstracted: a blocking call is one step that may be taken at    *)
(* any moment; Event.wait(t) returns the value the flag has when it        *)
(* returns; join(timeout=t) may return whether or not the thread ended.    *)
(* Threads interleave between blocking calls.  Ctrl+C is modelled where    *)
(* run() handles it (the except clause of line 696).                       *)
(***************************************************************************)
EXTENDS Integers, Sequences, FiniteSets, TLC

\* ------------------------------------------------------------------ bounds
\* Number of target values of Config.shared_buffer_sequence that are modelled.
SeqLen == 2
\* Number of workload classes of Config.test_cases that are modelled.
NumRuns == 2
\* CSVWriter.write_line calls that may fail with OSError in one behaviour.
MaxWriteFailures == 1
\* Largest core count (Config.vcore) the command planner is modelled for.
MaxCores == 3
\* Largest exit code of psql, and longest stdout or stderr of psql (in
\* pieces), that execute_sql is modelled for.
MaxReturnCode == 1
MaxTextLen == 2
\* Lines of diagnostic output read in one _execute_pgbench_command call.
MaxLines == 2
\* Data points the analyzer's pgbench and monitor threads put on the queue.
MaxSamples == 1

\* ------------------------------------------------------------------ configuration
\* Config.shared_buffer_sequence = (4, 8, 12, 9, 4), cut or repeated to SeqLen.
DefaultSequence == <<4, 8, 12, 9, 4>>
shared_buffer_sequence ==
    [i \in 1..SeqLen |-> DefaultSequence[((i - 1) % Len(DefaultSequence)) + 1]]

\* Workload classes a run is modelled for: one whose pipeline has a warmup
\* phase and one whose pipeline has none.
ModelledClasses == {"RO_Borderline", "Select1"}

Runs == 1..NumRuns

\* CreatePGCommand.pgcommand_to_execute: warmup_required is set for the
\* classes whose name contains "RO_" or "RW_".
WarmupClasses ==
    {"RO_FullyCached", "RO_Borderline", "RW_FullyCached", "RO_FixedSF", "RW_FixedSF"}
warmup_required(testcase) == testcase \in WarmupClasses

\* ------------------------------------------------------------------ CreatePGCommand
\* A command line is the sequence of the pieces it is concatenated from,
\* blanks left out; numbers are pieces through str().  The float settings of
\* the server profile (the multipliers) are held in halves, values for which
\* float arithmetic is exact: h stands for h / 2.
str(n) == ToString(n)

\* int() rounding up instead of truncating.
M_int_RoundsUp(halves) == (halves + 1) \div 2

\* int(x) of a float x >= 0 held in halves.
int(halves) == halves \div 2

\* The workload classes the command planner is modelled for: the seven known
\* ones and one that matches no known tag.
TestCases ==
    {"Select1", "Select1NPPS", "RO_FullyCached", "RO_Borderline", "RW_FullyCached",
     "RO_FixedSF", "RW_FixedSF", "Custom"}

\* `"RW_" in testcase` as a test for the one class RW_FullyCached.
M_HasRW_FullyCachedOnly(testcase) == testcase = "RW_FullyCached"

\* `"RO_" in testcase`, `"RW_" in testcase`, `"Select" in testcase`.
HasRO(testcase) == testcase \in {"RO_FullyCached", "RO_Borderline", "RO_FixedSF"}
HasRW(testcase) == testcase \in {"RW_FullyCached", "RW_FixedSF"}
HasSelect(testcase) == testcase \in {"Select1", "Select1NPPS"}

\* `if scale_factor is not None:` in the place of `if scale_factor:`.
M_Truthy_NotNone(value) == value # <<>>

\* None, and an int, as values of one variable; `if scale_factor:`.
None == <<>>
Some(n) == <<n>>
Truthy(value) == value # None /\ value[1] # 0

\* calculate_scalefactor without the division by 2.
M_calculate_scalefactor_NoHalving(sf_multiplier, v_cores) ==
    int(sf_multiplier * v_cores)

\* CreatePGCommand.calculate_scalefactor: int(sf_multiplier * v_cores / 2);
\* with sf_multiplier in halves that is the whole part of a number of quarters.
calculate_scalefactor(sf_multiplier, v_cores) == (sf_multiplier * v_cores) \div 4

\* calculate_scale_thread_connection with the point-lookup class treated as
\* Select1NPPS is (the counts follow the core count).
M_calculate_scale_thread_connection_NoSelect1(server, testcase) ==
    <<None,
      int(server.pgserver_client_Multiplier * server.pgserver_vcore),
      int(server.pgserver_thread_Multiplier * server.pgserver_vcore)>>

\* CreatePGCommand.calculate_scale_thread_connection (lines 280-302):
\* <<scale_factor, connections, threads>>.
calculate_scale_thread_connection(server, testcase) ==
    LET v_cores == server.pgserver_vcore
        connections == int(server.pgserver_client_Multiplier * v_cores)
        threads == int(server.pgserver_thread_Multiplier * v_cores)
    IN  CASE testcase = "Select1" -> <<None, 1, 1>>
          [] testcase = "Select1NPPS" -> <<None, connections, threads>>
          [] testcase = "RO_FullyCached" ->
               <<Some(calculate_scalefactor(server.pgserver_RO_fullCacheSF, v_cores)),
                 connections, threads>>
          [] testcase = "RO_Borderline" ->
               <<Some(calculate_scalefactor(server.pgserver_RO_BorderLineSF, v_cores)),
                 connections, threads>>
          [] testcase = "RW_FullyCached" ->
               <<Some(calculate_scalefactor(server.pgserver_RW_fullcacheSF, v_cores)),
                 connections, threads>>
          [] testcase = "RO_FixedSF" -> <<Some(server.pgserver_RO_FixedSF), connections, threads>>
          [] testcase = "RW_FixedSF" -> <<Some(server.pgserver_RW_FixedSF), connections, threads>>
          [] OTHER -> <<None, connections, threads>>

\* perf_test/CreatePGCommand.py, calculate_scale_thread_connection: the same
\* but for a class that matches no tag, for which it returns None.
PerfTest_calculate_scale_thread_connection(server, testcase) ==
    IF testcase \in TestCases \ {"Custom"}
    THEN calculate_scale_thread_connection(server, testcase)
    ELSE None

\* server.get("pgserver_dbname", "testdb")
server_dbname(server) ==
    IF "pgserver_dbname" \in DOMAIN server THEN server.pgserver_dbname ELSE "testdb"

\* pgcommand_to_execute building the warmup command after the measurement
\* duration has been appended to the command it copies.
M_BuildPipeline_WarmupCopiesDuration(server, testcase, pgserver_select1file, initialize0, common, stc, dbname) ==
    LET sf == IF Truthy(stc[1]) THEN <<"-s", str(stc[1][1])>> ELSE <<>>
        command4 ==
            common \o <<"-c", str(stc[2]), "-j", str(stc[3])>> \o sf
                \o (IF HasRO(testcase) THEN <<"-S">> ELSE <<>>)
                \o (IF HasSelect(testcase) THEN <<"-f", pgserver_select1file>> ELSE <<>>)
        command5 ==
            command4 \o <<"-T", str(IF HasRW(testcase) THEN server.pgserver_RW_testduration
                                    ELSE server.pgserver_testduration)>>
        initialize2 ==
            initialize0 \o sf \o (IF HasRW(testcase) THEN <<"-F", "90">> ELSE <<>>)
    IN  <<<<"initialize", initialize2 \o <<dbname>>>>>>
        \o (IF HasRO(testcase) \/ HasRW(testcase)
            THEN <<<<"warmupruns",
                     command5 \o <<"-T", str(server.pgserver_warmupduration), dbname>>>>>>
            ELSE <<>>)
        \o <<<<"testruns", command5 \o <<dbname>>>>>>

\* The body of pgcommand_to_execute from the `-c`/`-j` flags on (lines
\* 240-277), given the two prefixes, the <<scale_factor, connections,
\* threads>> triple and the database name: the dict it returns, as the
\* sequence of its <<key, command>> items in insertion order.
BuildPipeline(server, testcase, pgserver_select1file, initialize0, common, stc, dbname) ==
    LET scale_factor == stc[1]
        warmup_required_ == HasRO(testcase) \/ HasRW(testcase)
        command1 == common \o <<"-c", str(stc[2]), "-j", str(stc[3])>>
        command2 ==
            IF Truthy(scale_factor) THEN command1 \o <<"-s", str(scale_factor[1])>>
            ELSE command1
        initialize1 ==
            IF Truthy(scale_factor) THEN initialize0 \o <<"-s", str(scale_factor[1])>>
            ELSE initialize0
        command3 == IF HasRO(testcase) THEN command2 \o <<"-S">> ELSE command2
        initialize2 == IF HasRW(testcase) THEN initialize1 \o <<"-F", "90">> ELSE initialize1
        command4 ==
            IF HasSelect(testcase) THEN command3 \o <<"-f", pgserver_select1file>>
            ELSE command3
        pgbenchwarmupcommand ==
            command4 \o <<"-T", str(server.pgserver_warmupduration)>> \o <<dbname>>
        command5 ==
            IF HasRW(testcase)
            THEN command4 \o <<"-T", str(server.pgserver_RW_testduration)>>
            ELSE command4 \o <<"-T", str(server.pgserver_testduration)>>
    IN  <<<<"initialize", initialize2 \o <<dbname>>>>>>
        \o (IF warmup_required_ THEN <<<<"warmupruns", pgbenchwarmupcommand>>>> ELSE <<>>)
        \o <<<<"testruns", command5 \o <<dbname>>>>>>

\* CreatePGCommand.pgcommand_to_execute of collect_tps_and_resize.py (lines
\* 226-277): [raised, dict].
pgcommand_to_execute(server, testcase, pgserver_select1file, bin_directory) ==
    LET pgcommand_bin == <<bin_directory, "/pgbench">>
        connection_params ==
            <<"-h", server.pgserver_hosturl, "-p", server.pgserver_dbport>>
        pgbench_initialize == pgcommand_bin \o <<"-i">> \o connection_params
        pgbench_common ==
            pgcommand_bin \o <<"-P", "2", "-M", server.pgserver_testmode>>
                \o connection_params
    IN  [raised |-> FALSE,
         dict |-> BuildPipeline(server, testcase, pgserver_select1file,
                                pgbench_initialize, pgbench_common,
                                calculate_scale_thread_connection(server, testcase),
                                server_dbname(server))]

\* CreatePGCommand.pgcommand_to_execute of perf_test/CreatePGCommand.py: `-P
\* 10`, the database name "testdb" whatever the profile says, and a TypeError
\* when calculate_scale_thread_connection returned None (line 26 unpacks it).
PerfTest_pgcommand_to_execute(server, testcase, pgserver_select1file, bin_directory) ==
    LET pgcommand_bin == <<bin_directory, "/pgbench">>
        connection_params ==
            <<"-h", server.pgserver_hosturl, "-p", server.pgserver_dbport>>
        pgbench_initialize == pgcommand_bin \o <<"-i">> \o connection_params
        pgbench_common ==
            pgcommand_bin \o <<"-P", "10", "-M", server.pgserver_testmode>>
                \o connection_params
        stc == PerfTest_calculate_scale_thread_connection(server, testcase)
    IN  IF stc = None
        THEN [raised |-> TRUE, dict |-> <<>>]
        ELSE [raised |-> FALSE,
              dict |-> BuildPipeline(server, testcase, pgserver_select1file,
                                     pgbench_initialize, pgbench_common, stc, "testdb")]

\* Float settings of the profile, in halves: 0.5, 1.0 and the default 2.0
\* for the client and thread multipliers; 0.5, 2.5 and the default 20.0 for
\* the scale-factor multipliers.
Multipliers == {1, 2, 4}
SFMultipliers == {1, 5, 40}

\* Config.to_server_dict (lines 201-219) for the profiles modelled: every core
\* count up to MaxCores, the multipliers above, fixed scale factors 0 and the
\* defaults 100 and 50, the default durations, two database names.
Servers ==
    [pgserver_hosturl : {"localhost"},
     pgserver_dbport : {"5432"},
     pgserver_dbname : {"testdb", "perfdb"},
     pgserver_testmode : {"prepared"},
     pgserver_vcore : 1..MaxCores,
     pgserver_client_Multiplier : Multipliers,
     pgserver_thread_Multiplier : {2, 4},
     pgserver_warmupduration : {120},
     pgserver_testduration : {3600},
     pgserver_RW_testduration : {300},
     pgserver_RO_fullCacheSF : SFMultipliers,
     pgserver_RO_BorderLineSF : SFMultipliers,
     pgserver_RW_fullcacheSF : SFMultipliers,
     pgserver_RO_FixedSF : {0, 100},
     pgserver_RW_FixedSF : {0, 50}]

\* The item of a dict with the given key; key membership.
Keys(dict) == [i \in 1..Len(dict) |-> dict[i][1]]
HasKey(dict, key) == \E i \in 1..Len(dict) : dict[i][1] = key
Get(dict, key) == dict[CHOOSE i \in 1..Len(dict) : dict[i][1] = key][2]

\* ------------------------------------------------------------------ execute_sql
\* A text is a sequence of pieces: blanks, newlines and a word.
Whitespace == {" ", "\n"}
Pieces == Whitespace \cup {"t"}
Texts == UNION {[1..n -> Pieces] : n \in 0..MaxTextLen}

RECURSIVE lstrip(_)
lstrip(text) ==
    IF text # <<>> /\ text[1] \in Whitespace THEN lstrip(Tail(text)) ELSE text

RECURSIVE rstrip(_)
rstrip(text) ==
    IF text # <<>> /\ text[Len(text)] \in Whitespace
    THEN rstrip(SubSeq(text, 1, Len(text) - 1))
    ELSE text

\* str.strip()
strip(text) == rstrip(lstrip(text))

\* What subprocess.run(cmd, capture_output=True, text=True, timeout=timeout)
\* does: it returns a CompletedProcess, or raises TimeoutExpired, OSError (the
\* psql binary cannot be run) or UnicodeDecodeError (text=True, output that is
\* not valid in the locale's encoding).
Completed(returncode, stdout, stderr) ==
    [kind |-> "exit", returncode |-> returncode, stdout |-> stdout, stderr |-> stderr]
Raises(exception) ==
    [kind |-> exception, returncode |-> 0, stdout |-> <<>>, stderr |-> <<>>]
RunOutcomes ==
    {Completed(rc, o, e) : rc \in 0..MaxReturnCode, o \in Texts, e \in Texts}
        \cup {Raises(x) : x \in {"TimeoutExpired", "OSError", "UnicodeDecodeError"}}

\* What a call returns, or that it raised.
Returns(success, text) == [raised |-> FALSE, success |-> success, text |-> text]
Raised == [raised |-> TRUE, success |-> FALSE, text |-> <<>>]

\* execute_sql without the `except subprocess.TimeoutExpired` clause.
M_execute_sql_TimeoutEscapes(outcome) ==
    CASE outcome.kind = "OSError" -> Returns(FALSE, <<"str(exc)">>)
      [] outcome.kind \in {"TimeoutExpired", "UnicodeDecodeError"} -> Raised
      [] OTHER ->
           IF outcome.returncode = 0 THEN Returns(TRUE, strip(outcome.stdout))
           ELSE Returns(FALSE, strip(outcome.stderr))

\* DatabaseManager.execute_sql (lines 330-353): TimeoutExpired and OSError are
\* caught, any other exception of subprocess.run escapes.
execute_sql(outcome) ==
    CASE outcome.kind = "TimeoutExpired" -> Returns(FALSE, <<"SQL timeout">>)
      [] outcome.kind = "OSError" -> Returns(FALSE, <<"str(exc)">>)
      [] outcome.kind = "UnicodeDecodeError" -> Raised
      [] OTHER ->
           IF outcome.returncode = 0 THEN Returns(TRUE, strip(outcome.stdout))
           ELSE Returns(FALSE, strip(outcome.stderr))

\* PostgreSQLPerformanceAnalyzer.execute_sql (performance_analysis.py lines
\* 46-63): TimeoutExpired is caught, and so is every other Exception.
Analyzer_execute_sql(outcome) ==
    CASE outcome.kind = "TimeoutExpired" -> Returns(FALSE, <<"SQL timeout">>)
      [] outcome.kind \in {"OSError", "UnicodeDecodeError"} -> Returns(FALSE, <<"str(e)">>)
      [] OTHER ->
           IF outcome.returncode = 0 THEN Returns(TRUE, strip(outcome.stdout))
           ELSE Returns(FALSE, strip(outcome.stderr))

\* ------------------------------------------------------------------ progress lines
\* A line of pgbench's diagnostic output is the sequence of its words (the
\* blanks between them left out); a word is the sequence of its pieces: the
\* single characters of a number-like word, or one piece for a word of
\* letters.
Digits == {"0", "1", "2", "3", "4", "5", "6", "7", "8", "9"}

DigitValue(c) ==
    CASE c = "0" -> 0 [] c = "1" -> 1 [] c = "2" -> 2 [] c = "3" -> 3 [] c = "4" -> 4
      [] c = "5" -> 5 [] c = "6" -> 6 [] c = "7" -> 7 [] c = "8" -> 8 [] c = "9" -> 9

\* The character class [\d.] of the regular expression of line 461.
NumberChars == Digits \cup {"."}

\* What ([\d.]+) takes of a word when nothing has to follow it: the longest
\* run of [\d.] characters the word starts with.
RECURSIVE LeadingNumberChars(_)
LeadingNumberChars(word) ==
    IF word # <<>> /\ word[1] \in NumberChars
    THEN <<word[1]>> \o LeadingNumberChars(Tail(word))
    ELSE <<>>

\* ([\d.]+) followed by a blank: the whole word is [\d.] characters.
IsNumberChars(word) == word # <<>> /\ LeadingNumberChars(word) = word

\* The regular expression of line 461 matches at word i of the line.
MatchAt(line, i) ==
    /\ i + 9 <= Len(line)
    /\ line[i] = <<"progress:">>
    /\ IsNumberChars(line[i + 1])
    /\ line[i + 2] = <<"s,">>
    /\ IsNumberChars(line[i + 3])
    /\ line[i + 4] = <<"tps,">>
    /\ line[i + 5] = <<"lat">>
    /\ IsNumberChars(line[i + 6])
    /\ line[i + 7] = <<"ms">>
    /\ line[i + 8] = <<"stddev">>
    /\ LeadingNumberChars(line[i + 9]) # <<>>

\* re.search(pattern, line): None, or the four groups of the leftmost match.
re_search(line) ==
    IF \E i \in 1..Len(line) : MatchAt(line, i)
    THEN LET i == CHOOSE j \in 1..Len(line) :
                      MatchAt(line, j) /\ \A h \in 1..(j - 1) : ~MatchAt(line, h)
         IN  <<line[i + 1], line[i + 3], line[i + 6], LeadingNumberChars(line[i + 9])>>
    ELSE None

\* The value of a run of digits.
RECURSIVE DigitsValue(_)
DigitsValue(digits) ==
    IF digits = <<>> THEN 0
    ELSE 10 * DigitsValue(SubSeq(digits, 1, Len(digits) - 1))
             + DigitValue(digits[Len(digits)])

\* A decimal number m / 10^d in lowest terms of d: the floats 2.500 and 2.5
\* are the same number.
RECURSIVE Normalise(_)
Normalise(number) ==
    IF number[2] > 0 /\ number[1] % 10 = 0
    THEN Normalise(<<number[1] \div 10, number[2] - 1>>)
    ELSE number

\* float() reading the point as a digit separator that carries no weight.
M_float_IgnoresPoint(chars) ==
    LET digits == SelectSeq(chars, LAMBDA c : c # ".")
    IN  IF digits = <<>> \/ Len(chars) - Len(digits) > 1
        THEN [raised |-> TRUE, value |-> <<0, 0>>]
        ELSE [raised |-> FALSE, value |-> <<DigitsValue(digits), 0>>]

\* float(group) of a string of [\d.] characters (lines 465-468): ValueError
\* unless it has a digit and at most one point; else its value, <<m, d>>
\* standing for m / 10^d.
float(chars) ==
    LET digits == SelectSeq(chars, LAMBDA c : c # ".")
        point == IF \E i \in 1..Len(chars) : chars[i] = "."
                 THEN CHOOSE i \in 1..Len(chars) : chars[i] = "."
                 ELSE Len(chars)
    IN  IF digits = <<>> \/ Len(chars) - Len(digits) > 1
        THEN [raised |-> TRUE, value |-> <<0, 0>>]
        ELSE [raised |-> FALSE,
              value |-> Normalise(<<DigitsValue(digits), Len(chars) - point>>)]

\* Lines 456-479, one line of stderr: the arguments of the
\* CSVWriter.write_line(tps_file, ...) calls it makes (none, or one).
handle_line(line, run_type, test_case) ==
    LET match == re_search(line)
    IN  IF match = None THEN <<>>
        ELSE LET elapsed == float(match[1])
                 tps == float(match[2])
                 latency_avg == float(match[3])
                 latency_stddev == float(match[4])
             IN  IF \/ elapsed.raised \/ tps.raised
                    \/ latency_avg.raised \/ latency_stddev.raised
                 THEN <<>>
                 ELSE <<<<test_case, run_type, elapsed.value, tps.value,
                          latency_avg.value, latency_stddev.value>>>>

\* The run_type run_test_cases passes with each phase's command (lines
\* 528-530 and 540-542).
run_type_of(cmd) == IF cmd = "warmupruns" THEN "warmup" ELSE "measurement"

\* The words and lines the streaming is modelled for.  Number-like words:
\* decimal numbers, strings of [\d.] that are no number, a number followed by
\* a comma (pgbench 15 and later: "stddev 0.300, 0 failed") and "nan".
W(text) == <<text>>
ElapsedWords == {<<"1", "0", ".", "0">>, <<"7">>, <<"1", ".", "2", ".", "3">>, W("nan")}
TpsWords == {<<"5", "0", "0", ".", "2">>, <<".">>}
LatencyWords == {<<"2", ".", "5", "0", "0">>, <<"1", ".", "2", ".", "3">>}
StddevWords ==
    {<<"0", ".", "3", "0", "0">>, <<"0", ".", "3", "0", "0", ",">>, <<".">>, W("nan")}

ProgressLine(elapsed, tps, latency, stddev) ==
    <<W("progress:"), elapsed, W("s,"), tps, W("tps,"), W("lat"), latency, W("ms"),
      W("stddev"), stddev>>

Lines ==
    {around[1] \o ProgressLine(e, t, l, d) \o around[2] :
        around \in {<<<<>>, <<>>>>, <<<<W("pgbench:")>>, <<W("0"), W("failed")>>>>},
        e \in ElapsedWords, t \in TpsWords, l \in LatencyWords, d \in StddevWords}
    \cup {<<>>,
          <<W("starting"), W("vacuum...end.")>>,
          <<W("progress:"), <<"1", "0", ".", "0">>, W("s,")>>,
          <<W("progress"), <<"1", "0", ".", "0">>, W("s,"), <<"5", "0", "0", ".", "2">>,
            W("tps,"), W("lat"), <<"2", ".", "5", "0", "0">>, W("ms"), W("stddev"),
            <<"0", ".", "3", "0", "0">>>>,
          <<W("progress:"), <<"1", "0", ".", "0">>, W("s,"), <<"5", "0", "0", ".", "2">>,
            W("tps,"), W("latency"), <<"2", ".", "5", "0", "0">>, W("ms"), W("stddev"),
            <<"0", ".", "3", "0", "0">>>>}

VARIABLES
    test_cases,        \* Config.test_cases
    restart_required,  \* Config.restart_required
    dynamic_resize,    \* Config.dynamic_resize
    orchPc,            \* position of PerformanceCollector.run (main thread)
    run,               \* index into test_cases of the run in progress
    stop_event,        \* [Runs -> BOOLEAN]: the threading.Event of each run
    controller,        \* [Runs -> record]: the resize_controller thread of each run
    worker,            \* [Runs -> record]: the run_test_cases thread of each run
    process,           \* [Runs -> record]: the pgbench subprocess of each runner
    pg_running,        \* a process named "postgres" exists
    resize_events,     \* [Runs -> Seq]: <<status, size, index>> of each
                       \*   _record_resize_event call
    restart_events,    \* [Runs -> Seq]: <<status, size, index>> of each
                       \*   _record_restart_event call
    resize_file,       \* rows of resize_timings.csv
    restart_file,      \* rows of restart_timings.csv
    write_failures,    \* write_line calls that raised OSError so far
    alters,            \* [Runs -> Seq]: <<index, size, dwells>> of each ALTER
                       \*   SYSTEM issued: its step, its value and the dwells
                       \*   that had elapsed when it was issued
    issued,            \* [Runs -> SUBSET]: <<statement, index>> of the SQL statements
                       \*   and the pg_ctl restart issued by the sequencer
    planner,           \* the last CreatePGCommand.pgcommand_to_execute call: its
                       \*   arguments and what it returned
    sql,               \* the last execute_sql call: what psql did and what the
                       \*   call returned
    pgbench_stream,    \* one _execute_pgbench_command call read on its own: its
                       \*   arguments, the last line of stderr it read and the
                       \*   write_line calls that line made, the rows of tps_file
    analyzer,          \* PostgreSQLPerformanceAnalyzer (performance_analysis.py):
                       \*   run_analysis, its dynamic_resize_controller thread
                       \*   and the attributes they share
    executor           \* one ExecutePGCommand.execute_pgcommand call
                       \*   (perf_test/ExecutePGCommand.py): the pipeline it
                       \*   was given, its position and the commands it ran

vars == <<test_cases, restart_required, dynamic_resize, orchPc, run, stop_event, controller,
          worker, process, pg_running, resize_events, restart_events,
          resize_file, restart_file, write_failures, alters, issued, planner, sql,
          pgbench_stream, analyzer, executor>>

cfgVars == <<test_cases, restart_required, dynamic_resize>>
orchVars == <<orchPc, run>>
fileVars == <<resize_events, restart_events, resize_file, restart_file, write_failures>>
sqlVars == <<alters, issued>>
callVars == <<planner, sql, pgbench_stream, analyzer, executor>>
runnerVars == <<worker, process>>

\* ------------------------------------------------------------------ initial state
ControllerInit ==
    [pc |-> "idle", index |-> 1, dwells |-> 0, failed |-> 0,
     resize_success |-> FALSE, resize_result |-> "none"]

WorkerInit ==
    [pc |-> "idle", cmd |-> "none", late |-> 0, inits |-> 0, init_failed |-> FALSE,
     warmups |-> 0, measured |-> FALSE, sampled |-> FALSE]

ProcessInit == [st |-> "none", out |-> 0, err |-> 0]

\* PostgreSQLPerformanceAnalyzer.__init__ (lines 21-44) and the locals of its
\* threads:
\*   main    position of run_analysis (main thread)
\*   stop_monitoring   self.stop_monitoring
\*   pc, resize_index, success   position and locals of
\*           dynamic_resize_controller and of the resize_shared_buffers call
\*           it is in (resize_index counts from 0)
\*   pgbench_threads   the run_pgbench_test threads started so far, in the
\*           order of their start: the position of each (pc) and the state of
\*           the subprocess it launched (proc)
\*   pgbench_process   self.pgbench_process: the thread whose subprocess it
\*           refers to, 0 for None
\*   monitor position of monitor_system_metrics
\*   samples data points the pgbench threads and the monitor have put
\*   issued  <<statement, step, succeeded>> of the SQL statements and the
\*           pg_ctl restart of resize_shared_buffers, and <<"PGBENCH", step,
\*           TRUE>> for its restart_pgbench_test call
\*   performance_data  self.performance_data, the queue of data points
\*   csv_file   the rows of the CSV file save_performance_data wrote last
\*   sigint  whether SIGINT has arrived, and what the queue held then
AnalyzerInit ==
    [main |-> "initialize", stop_monitoring |-> FALSE, pc |-> "idle", resize_index |-> 0,
     success |-> FALSE, pgbench_threads |-> <<>>, pgbench_process |-> 0,
     monitor |-> "idle", samples |-> 0, issued |-> {}, performance_data |-> <<>>,
     csv_file |-> <<>>, sigint |-> [received |-> FALSE, queued |-> <<>>]]

\* The state in which PerformanceCollector.run is entered: no thread started,
\* no event recorded, the server up.
InitThreads ==
    /\ planner = [st |-> "idle"]
    /\ sql = [st |-> "idle"]
    /\ pgbench_stream = [st |-> "idle"]
    /\ analyzer = AnalyzerInit
    /\ executor = [st |-> "idle"]
    /\ orchPc = "ensure_database"
    /\ run = 1
    /\ stop_event = [k \in Runs |-> FALSE]
    /\ controller = [k \in Runs |-> ControllerInit]
    /\ worker = [k \in Runs |-> WorkerInit]
    /\ process = [k \in Runs |-> ProcessInit]
    /\ pg_running = TRUE
    /\ resize_events = [k \in Runs |-> <<>>]
    /\ restart_events = [k \in Runs |-> <<>>]
    /\ resize_file = <<>>
    /\ restart_file = <<>>
    /\ write_failures = 0
    /\ alters = [k \in Runs |-> <<>>]
    /\ issued = [k \in Runs |-> {}]

\* One workload class, every setting of the restart_required and
\* dynamic_resize switches.
Init ==
    /\ test_cases \in {<<c>> : c \in ModelledClasses}
    /\ restart_required \in BOOLEAN
    /\ dynamic_resize \in BOOLEAN
    /\ InitThreads

\* One workload class, the resize and restart blocks both switched off
\* (restart_required = False, dynamic_resize = False).
InitPlain ==
    /\ test_cases \in {<<c>> : c \in ModelledClasses}
    /\ restart_required = FALSE
    /\ dynamic_resize = FALSE
    /\ InitThreads

\* One workload class with the restart block switched on (restart_required =
\* True), the resize block on or off.
InitRestart ==
    /\ test_cases \in {<<c>> : c \in ModelledClasses}
    /\ restart_required = TRUE
    /\ dynamic_resize \in BOOLEAN
    /\ InitThreads

\* Config.test_cases with NumRuns workload classes, with and without a warmup
\* phase in turn, the resize and restart blocks both switched off.
InitRuns ==
    /\ test_cases = [i \in Runs |-> IF i % 2 = 1 THEN "Select1" ELSE "RO_Borderline"]
    /\ restart_required = FALSE
    /\ dynamic_resize = FALSE
    /\ InitThreads

\* The interpreter is alive: daemon threads run only while the main thread does.
Alive == orchPc \notin {"exited", "crashed"}

\* ------------------------------------------------------------------ CSVWriter
\* Outcomes of one CSVWriter.write_line call: TRUE is a written row, FALSE an
\* OSError that is logged and swallowed.
WriteOutcomes == IF write_failures < MaxWriteFailures THEN BOOLEAN ELSE {TRUE}

\* CSVWriter.write_line: the row is appended unless the write raised OSError.
write_line(file, row, ok) == IF ok THEN Append(file, row) ELSE file

\* ResizeController._record_resize_event
RecordResizeEvent(k, status, size, ok) ==
    /\ resize_events' = [resize_events EXCEPT
           ![k] = Append(@, <<status, size, controller[k].index>>)]
    /\ resize_file' = write_line(resize_file, <<status, size, test_cases[k]>>, ok)
    /\ write_failures' = IF ok THEN write_failures ELSE write_failures + 1
    /\ UNCHANGED <<restart_events, restart_file>>

\* ResizeController._record_restart_event
RecordRestartEvent(k, status, size, ok) ==
    /\ restart_events' = [restart_events EXCEPT
           ![k] = Append(@, <<status, size, controller[k].index>>)]
    /\ restart_file' = write_line(restart_file, <<status, size, test_cases[k]>>, ok)
    /\ write_failures' = IF ok THEN write_failures ELSE write_failures + 1
    /\ UNCHANGED <<resize_events, resize_file>>

\* ------------------------------------------------------------------ sequencer
\* ResizeController.resize_controller, one thread per run k.  Local variables:
\*   pc      position in the method
\*   index   enumerate(shared_buffer_sequence, start=1)
\*   dwells  number of stop_event.wait(wait_between_changes) calls that ran
\*           their full duration (returned False)
\*   failed  index of the step whose ALTER SYSTEM failed, 0 when none has
\*   resize_success, resize_result   the last pg_resize_shared_buffers() answer
\*           (put back to their initial values once the polling loop is left:
\*           they are not read again before the next step assigns them)
ControllerTerminated(k) == controller[k].pc \in {"finished", "aborted"}

size_of(k) == shared_buffer_sequence[controller[k].index]

Issue(k, statement) ==
    issued' = [issued EXCEPT ![k] = @ \cup {<<statement, controller[k].index>>}]

\* AfterReload with the resize block of lines 591-608 left out.
M_AfterReload_SkipsResize == IF restart_required THEN "restart_begin" ELSE "show"

\* Where the step goes after the reload (lines 591, 611).
AfterReload ==
    IF dynamic_resize THEN "resize_begin"
    ELSE IF restart_required THEN "restart_begin" ELSE "show"

\* Where the step goes after the resize block (line 611).
AfterResize == IF restart_required THEN "restart_begin" ELSE "show"

\* SeqIter with a dwell that runs its full duration whatever the signal
\* (time.sleep in place of stop_event.wait, and no is_set() check after the
\* first step).
M_SeqIter_DwellNotInterruptible(k) ==
    /\ Alive
    /\ controller[k].pc = "iter"
    /\ IF stop_event[k] /\ controller[k].index = 1
       THEN controller' = [controller EXCEPT ![k].pc = "finished"]
       ELSE controller' = [controller EXCEPT
                ![k].pc = "alter",
                ![k].dwells = IF controller[k].index > 1 THEN @ + 1 ELSE @]
    /\ UNCHANGED <<cfgVars, callVars, orchVars, stop_event, runnerVars, pg_running,
                   fileVars, sqlVars>>

\* SeqIter with the dwell guarded by `index > 2` instead of `index > 1`.
M_SeqIter_DwellFromThirdStep(k) ==
    /\ Alive
    /\ controller[k].pc = "iter"
    /\ IF stop_event[k]
       THEN controller' = [controller EXCEPT ![k].pc = "finished"]
       ELSE controller' = [controller EXCEPT
                ![k].pc = "alter",
                ![k].dwells = IF controller[k].index > 2 THEN @ + 1 ELSE @]
    /\ UNCHANGED <<cfgVars, callVars, orchVars, stop_event, runnerVars, pg_running,
                   fileVars, sqlVars>>

\* Lines 569-573: the loop head.  `if stop_event.is_set(): break`, then for
\* every step but the first the dwell `stop_event.wait(wait_between_changes)`,
\* which breaks the loop when the signal is set.
SeqIter(k) ==
    /\ Alive
    /\ controller[k].pc = "iter"
    /\ IF stop_event[k]
       THEN controller' = [controller EXCEPT ![k].pc = "finished"]
       ELSE controller' = [controller EXCEPT
                ![k].pc = "alter",
                ![k].dwells = IF controller[k].index > 1 THEN @ + 1 ELSE @]
    /\ UNCHANGED <<cfgVars, callVars, orchVars, stop_event, runnerVars, pg_running,
                   fileVars, sqlVars>>

\* SeqAlter without the `return` of line 583: a failed ALTER SYSTEM is logged
\* and the step goes on to the reload.
M_SeqAlter_NoReturn(k) ==
    /\ Alive
    /\ controller[k].pc = "alter"
    /\ alters' = [alters EXCEPT
           ![k] = Append(@, <<controller[k].index, size_of(k), controller[k].dwells>>)]
    /\ Issue(k, "ALTER")
    /\ \E success \in BOOLEAN :
         controller' = [controller EXCEPT
             ![k].pc = "reload",
             ![k].failed = IF success THEN @ ELSE controller[k].index]
    /\ UNCHANGED <<cfgVars, callVars, orchVars, stop_event, runnerVars, pg_running, fileVars>>

\* Lines 579-583: ALTER SYSTEM SET shared_buffers; a failure returns.
SeqAlter(k) ==
    /\ Alive
    /\ controller[k].pc = "alter"
    /\ alters' = [alters EXCEPT
           ![k] = Append(@, <<controller[k].index, size_of(k), controller[k].dwells>>)]
    /\ Issue(k, "ALTER")
    /\ \E success \in BOOLEAN :
         controller' = [controller EXCEPT
             ![k].pc = IF success THEN "reload" ELSE "aborted",
             ![k].failed = IF success THEN @ ELSE controller[k].index]
    /\ UNCHANGED <<cfgVars, callVars, orchVars, stop_event, runnerVars, pg_running, fileVars>>

\* SeqReload with a failed reload treated as a reason to cancel the run.
M_SeqReload_FailureCancels(k) ==
    /\ Alive
    /\ controller[k].pc = "reload"
    /\ Issue(k, "RELOAD")
    /\ \E reload_success \in BOOLEAN :
         /\ controller' = [controller EXCEPT ![k].pc = AfterReload]
         /\ stop_event' = [stop_event EXCEPT ![k] = @ \/ ~reload_success]
    /\ UNCHANGED <<cfgVars, callVars, orchVars, runnerVars, pg_running, fileVars, alters>>

\* Lines 585-589: SELECT pg_reload_conf(); its outcome is only logged.
SeqReload(k) ==
    /\ Alive
    /\ controller[k].pc = "reload"
    /\ Issue(k, "RELOAD")
    /\ \E reload_success \in BOOLEAN :
         controller' = [controller EXCEPT ![k].pc = AfterReload]
    /\ UNCHANGED <<cfgVars, callVars, orchVars, stop_event, runnerVars, pg_running,
                   fileVars, alters>>

\* The answers of execute_sql("SELECT pg_resize_shared_buffers();"):
\* (False, diagnostic), (True, "t"), (True, "f").
ResizeAnswers == {<<FALSE, "err">>, <<TRUE, "t">>, <<TRUE, "f">>}

\* SeqResizeBegin without the _record_resize_event("Started", ...) call.
M_SeqResizeBegin_NoStarted(k) ==
    /\ Alive
    /\ controller[k].pc = "resize_begin"
    /\ Issue(k, "RESIZE")
    /\ \E a \in ResizeAnswers :
         controller' = [controller EXCEPT
             ![k].pc = "resize_poll",
             ![k].resize_success = a[1],
             ![k].resize_result = a[2]]
    /\ UNCHANGED <<cfgVars, callVars, orchVars, stop_event, runnerVars, pg_running, alters,
                   fileVars>>

\* Lines 591-595: record "Started", then the first resize query.
SeqResizeBegin(k) ==
    /\ Alive
    /\ controller[k].pc = "resize_begin"
    /\ \E ok \in WriteOutcomes : RecordResizeEvent(k, "Started", size_of(k), ok)
    /\ Issue(k, "RESIZE")
    /\ \E a \in ResizeAnswers :
         controller' = [controller EXCEPT
             ![k].pc = "resize_poll",
             ![k].resize_success = a[1],
             ![k].resize_result = a[2]]
    /\ UNCHANGED <<cfgVars, callVars, orchVars, stop_event, runnerVars, pg_running, alters>>

\* Lines 596-608: while the answer is a success other than "t" and
\* stop_event.wait(5) times out, query again; then record "Completed".
SeqResizePoll(k) ==
    /\ Alive
    /\ controller[k].pc = "resize_poll"
    /\ IF /\ controller[k].resize_success
          /\ controller[k].resize_result # "t"
          /\ ~stop_event[k]
       THEN /\ \E a \in ResizeAnswers :
                 controller' = [controller EXCEPT
                     ![k].resize_success = a[1],
                     ![k].resize_result = a[2]]
            /\ UNCHANGED fileVars
       ELSE /\ \E ok \in WriteOutcomes :
                 RecordResizeEvent(k, "Completed", size_of(k), ok)
            /\ controller' = [controller EXCEPT
                   ![k].pc = AfterResize,
                   ![k].resize_success = FALSE,
                   ![k].resize_result = "none"]
    /\ UNCHANGED <<cfgVars, callVars, orchVars, stop_event, runnerVars, pg_running, sqlVars>>

\* Lines 611-627: record "Started", then `pg_ctl restart`; its exit code is
\* only logged, and the server is up or down afterwards.
SeqRestartBegin(k) ==
    /\ Alive
    /\ controller[k].pc = "restart_begin"
    /\ \E ok \in WriteOutcomes : RecordRestartEvent(k, "Started", size_of(k), ok)
    /\ Issue(k, "RESTART")
    /\ pg_running' \in BOOLEAN
    /\ controller' = [controller EXCEPT ![k].pc = "recover"]
    /\ UNCHANGED <<cfgVars, callVars, orchVars, stop_event, runnerVars, alters>>

\* Lines 635-643: while no postgres process is seen and stop_event.wait(1)
\* times out, sleep and run `pg_ctl start` (a retry inside the restart block,
\* not recorded in issued); then record "Completed".
SeqRecover(k) ==
    /\ Alive
    /\ controller[k].pc = "recover"
    /\ IF ~pg_running /\ ~stop_event[k]
       THEN /\ pg_running' \in BOOLEAN
            /\ UNCHANGED <<controller, fileVars, issued>>
       ELSE /\ \E ok \in WriteOutcomes :
                 RecordRestartEvent(k, "Completed", size_of(k), ok)
            /\ controller' = [controller EXCEPT ![k].pc = "settle"]
            /\ UNCHANGED <<pg_running, issued>>
    /\ UNCHANGED <<cfgVars, callVars, orchVars, stop_event, runnerVars, alters>>

\* Line 644: stop_event.wait(5) after the restart.
SeqSettle(k) ==
    /\ Alive
    /\ controller[k].pc = "settle"
    /\ controller' = [controller EXCEPT ![k].pc = "show"]
    /\ UNCHANGED <<cfgVars, callVars, orchVars, stop_event, runnerVars, pg_running,
                   fileVars, sqlVars>>

\* SeqShow with the sequencer setting the cancellation signal when the
\* sequence is exhausted.
M_SeqShow_SetsSignal(k) ==
    /\ Alive
    /\ controller[k].pc = "show"
    /\ Issue(k, "SHOW")
    /\ IF controller[k].index = SeqLen
       THEN /\ controller' = [controller EXCEPT ![k].pc = "finished"]
            /\ stop_event' = [stop_event EXCEPT ![k] = TRUE]
       ELSE /\ controller' = [controller EXCEPT ![k].pc = "iter", ![k].index = @ + 1]
            /\ UNCHANGED stop_event
    /\ UNCHANGED <<cfgVars, callVars, orchVars, runnerVars, pg_running, fileVars, alters>>

\* SeqShow with the loop applying the same value again instead of moving on
\* to the next one.
M_SeqShow_RepeatsValue(k) ==
    /\ Alive
    /\ controller[k].pc = "show"
    /\ Issue(k, "SHOW")
    /\ IF controller[k].index = SeqLen /\ Len(alters[k]) > SeqLen
       THEN controller' = [controller EXCEPT ![k].pc = "finished"]
       ELSE controller' = [controller EXCEPT ![k].pc = "iter"]
    /\ UNCHANGED <<cfgVars, callVars, orchVars, stop_event, runnerVars, pg_running,
                   fileVars, alters>>

\* Lines 646-650: SHOW shared_buffers, then the next value of the sequence, or
\* the end of the method when the sequence is exhausted.
SeqShow(k) ==
    /\ Alive
    /\ controller[k].pc = "show"
    /\ Issue(k, "SHOW")
    /\ IF controller[k].index = SeqLen
       THEN controller' = [controller EXCEPT ![k].pc = "finished"]
       ELSE controller' = [controller EXCEPT ![k].pc = "iter", ![k].index = @ + 1]
    /\ UNCHANGED <<cfgVars, callVars, orchVars, stop_event, runnerVars, pg_running,
                   fileVars, alters>>

\* ------------------------------------------------------------------ pgbench subprocess
\* The subprocess of runner k as the runner sees it: st is "none" (nothing
\* launched), "running", "exited" (ended on its own, pipes at end of file once
\* drained) or "reaped" (poll()/wait() collected it); out and err count the
\* lines buffered on its stdout and stderr pipes.  Only what the runner can
\* still observe is modelled: output while it is in its reading code.
Reading(k) == worker[k].pc \in {"read_stdout", "read_loop", "read_stderr"}

ProcStdout(k) ==
    /\ Alive
    /\ process[k].st = "running"
    /\ worker[k].pc = "read_stdout"
    /\ process[k].out = 0
    /\ process' = [process EXCEPT ![k].out = 1]
    /\ UNCHANGED <<cfgVars, callVars, orchVars, stop_event, controller, worker, pg_running,
                   fileVars, sqlVars>>

ProcStderr(k) ==
    /\ Alive
    /\ process[k].st = "running"
    /\ Reading(k)
    /\ process[k].err = 0
    /\ process' = [process EXCEPT ![k].err = 1]
    /\ UNCHANGED <<cfgVars, callVars, orchVars, stop_event, controller, worker, pg_running,
                   fileVars, sqlVars>>

ProcExit(k) ==
    /\ Alive
    /\ process[k].st = "running"
    /\ Reading(k)
    /\ process' = [process EXCEPT ![k].st = "exited"]
    /\ UNCHANGED <<cfgVars, callVars, orchVars, stop_event, controller, worker, pg_running,
                   fileVars, sqlVars>>

\* ------------------------------------------------------------------ runner
\* BenchmarkRunner.run_test_cases and _execute_pgbench_command, one thread per
\* run k.  Local variables:
\*   pc    position in the two methods
\*   cmd   the pipeline phase handed to _execute_pgbench_command ("none"
\*         outside the call)
\*   late  number of subprocesses launched while stop_event was already set
\*   inits, init_failed   executions of the initialize command, and whether
\*         it exited non-zero or raised
\*   warmups    warmupruns subprocesses launched
\*   measured   a testruns subprocess has been launched
\*   sampled    a MetricSample has been emitted (a tps_file row handed to
\*         CSVWriter.write_line, lines 473-476)
WorkerTerminated(k) == worker[k].pc = "returned"

\* RunInitialize with a failed initialize only logged: the runner goes on to
\* the warmup.
M_RunInitialize_IgnoresFailure(k) ==
    /\ Alive
    /\ worker[k].pc = "initialize"
    /\ \E success \in BOOLEAN :
         worker' = [worker EXCEPT
             ![k].pc = "warmup_check",
             ![k].inits = @ + 1,
             ![k].init_failed = ~success]
    /\ UNCHANGED <<cfgVars, callVars, orchVars, stop_event, controller, process, pg_running,
                   fileVars, sqlVars>>

\* Lines 497-523: build the pipeline, run `initialize` synchronously; a
\* non-zero exit or an exception returns.
RunInitialize(k) ==
    /\ Alive
    /\ worker[k].pc = "initialize"
    /\ \E success \in BOOLEAN :
         worker' = [worker EXCEPT
             ![k].pc = IF success THEN "warmup_check" ELSE "returned",
             ![k].inits = @ + 1,
             ![k].init_failed = ~success]
    /\ UNCHANGED <<cfgVars, callVars, orchVars, stop_event, controller, process, pg_running,
                   fileVars, sqlVars>>

\* RunWarmupCheck with the warmup phase left out.
M_RunWarmupCheck_SkipsWarmup(k) ==
    /\ Alive
    /\ worker[k].pc = "warmup_check"
    /\ worker' = [worker EXCEPT ![k].pc = "loop_head"]
    /\ UNCHANGED <<cfgVars, callVars, orchVars, stop_event, controller, process, pg_running,
                   fileVars, sqlVars>>

\* Line 526: `if "warmupruns" in pgcommands and not stop_event.is_set()`.
RunWarmupCheck(k) ==
    /\ Alive
    /\ worker[k].pc = "warmup_check"
    /\ IF warmup_required(test_cases[k]) /\ ~stop_event[k]
       THEN worker' = [worker EXCEPT ![k].pc = "popen", ![k].cmd = "warmupruns"]
       ELSE worker' = [worker EXCEPT ![k].pc = "loop_head"]
    /\ UNCHANGED <<cfgVars, callVars, orchVars, stop_event, controller, process, pg_running,
                   fileVars, sqlVars>>

\* RunLoopHead with a loop that does not look at the signal.
M_RunLoopHead_IgnoresSignal(k) ==
    /\ Alive
    /\ worker[k].pc = "loop_head"
    /\ worker' = [worker EXCEPT ![k].pc = "popen", ![k].cmd = "testruns"]
    /\ UNCHANGED <<cfgVars, callVars, orchVars, stop_event, controller, process, pg_running,
                   fileVars, sqlVars>>

\* Line 536: `while not stop_event.is_set()`, reached after the pauses of
\* lines 532 and 543-546 (stop_event.wait), which change nothing.
RunLoopHead(k) ==
    /\ Alive
    /\ worker[k].pc = "loop_head"
    /\ IF stop_event[k]
       THEN worker' = [worker EXCEPT ![k].pc = "returned"]
       ELSE worker' = [worker EXCEPT ![k].pc = "popen", ![k].cmd = "testruns"]
    /\ UNCHANGED <<cfgVars, callVars, orchVars, stop_event, controller, process, pg_running,
                   fileVars, sqlVars>>

\* Lines 437-443: subprocess.Popen of the phase's command.
RunPopen(k) ==
    /\ Alive
    /\ worker[k].pc = "popen"
    /\ process' = [process EXCEPT ![k] = [st |-> "running", out |-> 0, err |-> 0]]
    /\ worker' = [worker EXCEPT
           ![k].pc = "read_stdout",
           ![k].late = IF stop_event[k] THEN @ + 1 ELSE @,
           ![k].warmups = IF worker[k].cmd = "warmupruns" THEN @ + 1 ELSE @,
           ![k].measured = @ \/ worker[k].cmd = "testruns"]
    /\ UNCHANGED <<cfgVars, callVars, orchVars, stop_event, controller, pg_running,
                   fileVars, sqlVars>>

\* Line 445: process.stdout.readline() returns a line, or "" at end of file.
RunReadStdout(k) ==
    /\ Alive
    /\ worker[k].pc = "read_stdout"
    /\ process[k].out > 0 \/ process[k].st # "running"
    /\ process' = [process EXCEPT ![k].out = 0]
    /\ worker' = [worker EXCEPT ![k].pc = "read_loop"]
    /\ UNCHANGED <<cfgVars, callVars, orchVars, stop_event, controller, pg_running,
                   fileVars, sqlVars>>

\* Line 449: `while not stop_event.is_set()`.
RunReadLoop(k) ==
    /\ Alive
    /\ worker[k].pc = "read_loop"
    /\ worker' = [worker EXCEPT
           ![k].pc = IF stop_event[k] THEN "finally" ELSE "read_stderr"]
    /\ UNCHANGED <<cfgVars, callVars, orchVars, stop_event, controller, process, pg_running,
                   fileVars, sqlVars>>

\* Lines 450-479: process.stderr.readline(); a line is handled (one that
\* matches the progress grammar emits a MetricSample) and the loop continues,
\* "" (end of file) breaks the loop.
RunReadStderr(k) ==
    /\ Alive
    /\ worker[k].pc = "read_stderr"
    /\ process[k].err > 0 \/ process[k].st # "running"
    /\ IF process[k].err > 0
       THEN /\ process' = [process EXCEPT ![k].err = 0]
            /\ \E progress \in BOOLEAN :
                 worker' = [worker EXCEPT
                     ![k].pc = "read_loop",
                     ![k].sampled = @ \/ progress]
       ELSE /\ worker' = [worker EXCEPT ![k].pc = "finally"]
            /\ UNCHANGED process
    /\ UNCHANGED <<cfgVars, callVars, orchVars, stop_event, controller, pg_running,
                   fileVars, sqlVars>>

\* RunFinally with a loop that gives up after an iteration whose subprocess
\* ended on its own (a non-zero or premature exit).
M_RunFinally_FailedIterationEndsLoop(k) ==
    /\ Alive
    /\ worker[k].pc = "finally"
    /\ process' = [process EXCEPT ![k] = [st |-> "reaped", out |-> 0, err |-> 0]]
    /\ worker' = [worker EXCEPT
           ![k].pc = IF process[k].st = "exited" THEN "returned" ELSE "loop_head",
           ![k].cmd = "none"]
    /\ UNCHANGED <<cfgVars, callVars, orchVars, stop_event, controller, pg_running,
                   fileVars, sqlVars>>

\* Lines 480-483: `if process.poll() is None: terminate(); wait()`, and the
\* return to run_test_cases.
RunFinally(k) ==
    /\ Alive
    /\ worker[k].pc = "finally"
    /\ process' = [process EXCEPT ![k] = [st |-> "reaped", out |-> 0, err |-> 0]]
    /\ worker' = [worker EXCEPT ![k].pc = "loop_head", ![k].cmd = "none"]
    /\ UNCHANGED <<cfgVars, callVars, orchVars, stop_event, controller, pg_running,
                   fileVars, sqlVars>>

\* An exception leaves _execute_pgbench_command.  Raised by line 445 (the
\* readline of stdout has returned and the line is decoded and printed to
\* sys.stdout, which raises when that stream is closed or the bytes are not
\* text), it is outside the try block of line 447: nothing terminates the
\* subprocess.  Raised by the readline of line 450, it runs the finally block
\* (lines 480-483) first.  run_test_cases (lines 525-548) catches neither, so
\* the runner thread ends.
RunRaise(k) ==
    /\ Alive
    /\ \/ /\ worker[k].pc = "read_stdout"
          /\ process[k].out > 0 \/ process[k].st # "running"
          /\ UNCHANGED process
       \/ /\ worker[k].pc = "read_stderr"
          /\ process[k].err > 0
          /\ process' = [process EXCEPT ![k] = [st |-> "reaped", out |-> 0, err |-> 0]]
    /\ worker' = [worker EXCEPT ![k].pc = "raised", ![k].cmd = "none"]
    /\ UNCHANGED <<cfgVars, callVars, orchVars, stop_event, controller, pg_running,
                   fileVars, sqlVars>>

\* ------------------------------------------------------------------ orchestrator
\* PerformanceCollector.run, the main thread.

\* Lines 666-681: a fresh Event, ensure_database (RuntimeError returns from
\* run), then the controller thread is started.
OrchEnsureDatabase ==
    /\ orchPc = "ensure_database"
    /\ stop_event' = [stop_event EXCEPT ![run] = FALSE]
    /\ \E success \in BOOLEAN :
         IF success
         THEN /\ orchPc' = "sleep"
              /\ controller' = [controller EXCEPT ![run].pc = "iter"]
         ELSE /\ orchPc' = "exited"
              /\ UNCHANGED controller
    /\ UNCHANGED <<cfgVars, callVars, run, runnerVars, pg_running, fileVars, sqlVars>>

\* Lines 683-690: time.sleep(5), then the runner thread is started.
OrchStartWorkers ==
    /\ orchPc = "sleep"
    /\ worker' = [worker EXCEPT ![run].pc = "initialize"]
    /\ orchPc' = "join_controller"
    /\ UNCHANGED <<cfgVars, callVars, run, stop_event, controller, process, pg_running,
                   fileVars, sqlVars>>

\* Line 695: controller_thread.join() returns when the sequencer has ended.
OrchJoinController ==
    /\ orchPc = "join_controller"
    /\ ControllerTerminated(run)
    /\ orchPc' = "join_workers"
    /\ UNCHANGED <<cfgVars, callVars, run, stop_event, controller, runnerVars, pg_running,
                   fileVars, sqlVars>>

\* Lines 696-697: Ctrl+C during the join is caught; the finally block runs.
OrchKeyboardInterrupt ==
    /\ orchPc = "join_controller"
    /\ orchPc' = "join_workers"
    /\ UNCHANGED <<cfgVars, callVars, run, stop_event, controller, runnerVars, pg_running,
                   fileVars, sqlVars>>

\* OrchJoinWorkers with a join that has no timeout.
M_OrchJoinWorkers_NoTimeout ==
    /\ orchPc = "join_workers"
    /\ worker[run].pc = "returned"
    /\ orchPc' = "set_stop"
    /\ UNCHANGED <<cfgVars, callVars, run, stop_event, controller, runnerVars, pg_running,
                   fileVars, sqlVars>>

\* Lines 700-701: worker.join(timeout=duration) returns when the runner has
\* ended or the timeout ran out.
OrchJoinWorkers ==
    /\ orchPc = "join_workers"
    /\ orchPc' = "set_stop"
    /\ UNCHANGED <<cfgVars, callVars, run, stop_event, controller, runnerVars, pg_running,
                   fileVars, sqlVars>>

\* OrchSetStop with one Event object shared by all runs.
M_OrchSetStop_SharedEvent ==
    /\ orchPc = "set_stop"
    /\ stop_event' = [k \in Runs |-> TRUE]
    /\ orchPc' = "join_workers_2"
    /\ UNCHANGED <<cfgVars, callVars, run, controller, runnerVars, pg_running,
                   fileVars, sqlVars>>

\* Line 702: stop_event.set().
OrchSetStop ==
    /\ orchPc = "set_stop"
    /\ stop_event' = [stop_event EXCEPT ![run] = TRUE]
    /\ orchPc' = "join_workers_2"
    /\ UNCHANGED <<cfgVars, callVars, run, controller, runnerVars, pg_running,
                   fileVars, sqlVars>>

\* Lines 703-704: worker.join(timeout=2).
OrchJoinWorkers2 ==
    /\ orchPc = "join_workers_2"
    /\ orchPc' = "cleanup"
    /\ UNCHANGED <<cfgVars, callVars, run, stop_event, controller, runnerVars, pg_running,
                   fileVars, sqlVars>>

\* Lines 705-706 and 666: cleanup_database, then the next workload class, or
\* the end of run() and of the interpreter.
OrchCleanup ==
    /\ orchPc = "cleanup"
    /\ IF run < Len(test_cases)
       THEN /\ run' = run + 1
            /\ orchPc' = "ensure_database"
       ELSE /\ orchPc' = "exited"
            /\ UNCHANGED run
    /\ UNCHANGED <<cfgVars, callVars, stop_event, controller, runnerVars, pg_running,
                   fileVars, sqlVars>>

\* ------------------------------------------------------------------ command planning
\* run_test_cases line 498 (and meru_design.py line 218): one call of
\* pgcommand_to_execute with a server profile and a workload class.
PlanCommands ==
    /\ planner.st = "idle"
    /\ \E server \in Servers, testcase \in TestCases :
         planner' = [st |-> "planned", module |-> "collect_tps_and_resize",
                     server |-> server, testcase |-> testcase,
                     result |-> pgcommand_to_execute(server, testcase,
                                                     "select1.sql", "/usr/bin")]
    /\ UNCHANGED <<cfgVars, sql, pgbench_stream, analyzer, executor,
                   orchVars, stop_event,
                   controller, runnerVars, pg_running, fileVars, sqlVars>>

PerfTestPlanCommands ==
    /\ planner.st = "idle"
    /\ \E server \in Servers, testcase \in TestCases :
         planner' = [st |-> "planned", module |-> "perf_test",
                     server |-> server, testcase |-> testcase,
                     result |-> PerfTest_pgcommand_to_execute(server, testcase,
                                                              "select1.sql", "/usr/bin")]
    /\ UNCHANGED <<cfgVars, sql, pgbench_stream, analyzer, executor,
                   orchVars, stop_event,
                   controller, runnerVars, pg_running, fileVars, sqlVars>>

NextPlanner == PlanCommands \/ PerfTestPlanCommands

\* Command planning alone, for every profile and class modelled.
SpecPlanner == InitPlain /\ [][NextPlanner]_vars

\* ------------------------------------------------------------------ SQL calls
\* One call of DatabaseManager.execute_sql, for every outcome of psql modelled.
ExecuteSql ==
    /\ sql.st = "idle"
    /\ \E outcome \in RunOutcomes :
         sql' = [st |-> "returned", class |-> "DatabaseManager",
                 outcome |-> outcome, result |-> execute_sql(outcome)]
    /\ UNCHANGED <<cfgVars, planner, pgbench_stream, analyzer, executor,
                   orchVars, stop_event,
                   controller, runnerVars, pg_running, fileVars, sqlVars>>

\* One call of PostgreSQLPerformanceAnalyzer.execute_sql.
AnalyzerExecuteSql ==
    /\ sql.st = "idle"
    /\ \E outcome \in RunOutcomes :
         sql' = [st |-> "returned", class |-> "PostgreSQLPerformanceAnalyzer",
                 outcome |-> outcome, result |-> Analyzer_execute_sql(outcome)]
    /\ UNCHANGED <<cfgVars, planner, pgbench_stream, analyzer, executor,
                   orchVars, stop_event,
                   controller, runnerVars, pg_running, fileVars, sqlVars>>

NextSql == ExecuteSql \/ AnalyzerExecuteSql

\* execute_sql alone, for every outcome of psql modelled.
SpecSql == InitPlain /\ [][NextSql]_vars

\* ------------------------------------------------------------------ progress streaming
\* One _execute_pgbench_command call, as run_test_cases makes it: with the
\* warmupruns command and "warmup" (a class that has a warmup phase), or with
\* the testruns command and "measurement".
StreamPopen ==
    /\ pgbench_stream.st = "idle"
    /\ \E test_case \in ModelledClasses, cmd \in {"warmupruns", "testruns"} :
         /\ cmd = "warmupruns" => warmup_required(test_case)
         /\ pgbench_stream' = [st |-> "reading", cmd |-> cmd, run_type |-> run_type_of(cmd),
                       test_case |-> test_case, lines |-> 0, line |-> <<>>,
                       emitted |-> <<>>, tps_file |-> <<>>]
    /\ UNCHANGED <<cfgVars, planner, sql, analyzer, executor,
                   orchVars, stop_event, controller,
                   runnerVars, pg_running, fileVars, sqlVars>>

\* Lines 450-479 for one line of stderr: the line is matched and converted,
\* and a sample goes to CSVWriter.write_line, which appends it to tps_file
\* unless the write fails.
StreamReadLine ==
    /\ pgbench_stream.st = "reading"
    /\ pgbench_stream.lines < MaxLines
    /\ \E line \in Lines, ok \in WriteOutcomes :
         LET samples ==
                 handle_line(line, pgbench_stream.run_type, pgbench_stream.test_case)
         IN  /\ samples = <<>> => ok
             /\ pgbench_stream' = [pgbench_stream EXCEPT
                    !.lines = @ + 1,
                    !.line = line,
                    !.emitted = samples,
                    !.tps_file = IF samples = <<>> THEN @
                                 ELSE write_line(@, samples[1], ok)]
             /\ write_failures' = IF ok THEN write_failures ELSE write_failures + 1
    /\ UNCHANGED <<cfgVars, planner, sql, analyzer, executor,
                   orchVars, stop_event, controller,
                   runnerVars, pg_running, resize_events, restart_events, resize_file,
                   restart_file, sqlVars>>

\* Lines 449-452 and 480-483: the signal is set or stderr is at end of file;
\* the call returns.
StreamEnd ==
    /\ pgbench_stream.st = "reading"
    /\ pgbench_stream' = [pgbench_stream EXCEPT !.st = "ended"]
    /\ UNCHANGED <<cfgVars, planner, sql, analyzer, executor,
                   orchVars, stop_event, controller,
                   runnerVars, pg_running, fileVars, sqlVars>>

NextStream == StreamPopen \/ StreamReadLine \/ StreamEnd

\* The reading of one subprocess's stderr alone, for every line modelled.
SpecStream == InitPlain /\ [][NextStream]_vars

\* ------------------------------------------------------------------ analyzer
\* PostgreSQLPerformanceAnalyzer of perf_test/performance_analysis.py:
\* run_analysis and signal_handler (main thread), the dynamic_resize_controller
\* thread, the run_pgbench_test threads with the pgbench subprocess each of
\* them launches, and the monitor_system_metrics thread.  The sleeps are
\* abstracted: a step may be taken at any moment.  One SIGINT is modelled.

\* self.resize_sequence = ["8GB", "16GB", "4GB", "12GB"], cut or repeated to
\* SeqLen.
AnalyzerSequence == <<8, 16, 4, 12>>
resize_sequence ==
    [i \in 1..SeqLen |-> AnalyzerSequence[((i - 1) % Len(AnalyzerSequence)) + 1]]

\* Daemon threads run only while the main thread does.
AnalyzerAlive == analyzer.main # "exited"

\* The step of resize_shared_buffers in progress, counted from 1.
resize_step == analyzer.resize_index + 1

AnalyzerUnchanged ==
    UNCHANGED <<cfgVars, planner, sql, pgbench_stream, executor, orchVars, stop_event,
                controller, runnerVars, pg_running, fileVars, sqlVars>>

\* The run_pgbench_test threads started so far, in the order of their start;
\* thread t launches at most one subprocess, its field proc.
PgbenchThreads == 1..Len(analyzer.pgbench_threads)

\* `self.pgbench_process and self.pgbench_process.poll() is None`
PollIsNone(a) ==
    /\ a.pgbench_process # 0
    /\ a.pgbench_threads[a.pgbench_process].proc = "running"

\* `if self.pgbench_process and self.pgbench_process.poll() is None:
\* self.pgbench_process.terminate()` (lines 358-360, 419-420, 488-489): the
\* threads after it.
terminate(a) ==
    IF PollIsNone(a)
    THEN [a.pgbench_threads EXCEPT ![a.pgbench_process].proc = "terminated"]
    ELSE a.pgbench_threads

\* save_performance_data (lines 373-412): the queue is drained; when it held
\* anything the file is opened with mode 'w' and gets one row per data point.
\* The writing is taken to succeed.
save_performance_data(a) ==
    IF a.performance_data = <<>>
    THEN a
    ELSE [a EXCEPT !.csv_file = a.performance_data, !.performance_data = <<>>]

\* Lines 434-477: initialize_database, then the threads are started (the
\* monitors, the resize controller and the first run_pgbench_test thread) and
\* run_analysis sleeps; a failed initialize_database returns, through the
\* finally block (lines 485-489).
RunAnalysisStart ==
    /\ analyzer.main = "initialize"
    /\ \E success \in BOOLEAN :
         IF success
         THEN analyzer' = [analyzer EXCEPT
                  !.main = "sleeping", !.pc = "initial_wait", !.monitor = "loop_head",
                  !.pgbench_threads = <<[pc |-> "started", proc |-> "none"]>>]
         ELSE analyzer' = [analyzer EXCEPT !.main = "stopping", !.stop_monitoring = TRUE]
    /\ AnalyzerUnchanged

\* Lines 477-489: the sleep ends and the finally block sets stop_monitoring
\* and terminates the subprocess self.pgbench_process refers to.
RunAnalysisFinally ==
    /\ analyzer.main = "sleeping"
    /\ analyzer' = [analyzer EXCEPT
           !.main = "stopping", !.stop_monitoring = TRUE,
           !.pgbench_threads = terminate(analyzer)]
    /\ AnalyzerUnchanged

\* Lines 492-499: after time.sleep(3) the data is saved and the process exits.
RunAnalysisExit ==
    /\ analyzer.main = "stopping"
    /\ analyzer' = [save_performance_data(analyzer) EXCEPT !.main = "exited"]
    /\ AnalyzerUnchanged

\* signal_handler, lines 416-420: SIGINT arrives while the main thread is in
\* run_analysis; the handler sets stop_monitoring and terminates the
\* subprocess self.pgbench_process refers to.  sigint.queued keeps what the
\* queue held at that moment.
SignalHandler ==
    /\ analyzer.main \in {"initialize", "sleeping", "stopping"}
    /\ ~analyzer.sigint.received
    /\ analyzer' = [analyzer EXCEPT
           !.main = IF analyzer.main = "stopping" THEN "handler_in_finally" ELSE "handler",
           !.stop_monitoring = TRUE,
           !.pgbench_threads = terminate(analyzer),
           !.sigint = [received |-> TRUE, queued |-> analyzer.performance_data]]
    /\ AnalyzerUnchanged

\* signal_handler, lines 422-424: the data is saved and sys.exit(0) raises
\* SystemExit in the main thread.  Raised inside the try block of
\* run_analysis it runs the finally block (lines 482-489); raised inside the
\* finally block it leaves run_analysis and the process exits.
SignalHandlerSave ==
    /\ analyzer.main \in {"handler", "handler_in_finally"}
    /\ LET saved == save_performance_data(analyzer)
       IN  analyzer' =
               IF analyzer.main = "handler"
               THEN [saved EXCEPT !.main = "stopping", !.pgbench_threads = terminate(saved)]
               ELSE [saved EXCEPT !.main = "exited"]
    /\ AnalyzerUnchanged

\* Lines 252-256: the wait before the first resize, left when stop_monitoring
\* is seen.
DrcInitialWait ==
    /\ AnalyzerAlive
    /\ analyzer.pc = "initial_wait"
    /\ analyzer' = [analyzer EXCEPT
           !.pc = IF analyzer.stop_monitoring THEN "returned" ELSE "loop_head"]
    /\ AnalyzerUnchanged

\* Line 258: `while not self.stop_monitoring and resize_index <
\* len(self.resize_sequence)`.
DrcLoopHead ==
    /\ AnalyzerAlive
    /\ analyzer.pc = "loop_head"
    /\ analyzer' = [analyzer EXCEPT
           !.pc = IF ~analyzer.stop_monitoring /\ analyzer.resize_index < SeqLen
                  THEN "alter" ELSE "returned"]
    /\ AnalyzerUnchanged

\* resize_shared_buffers, lines 290-296: ALTER SYSTEM; a failure returns False.
RsbAlter ==
    /\ AnalyzerAlive
    /\ analyzer.pc = "alter"
    /\ \E success \in BOOLEAN :
         analyzer' = [analyzer EXCEPT
             !.issued = @ \cup {<<"ALTER", resize_step, success>>},
             !.pc = IF success THEN "reload" ELSE "record",
             !.success = FALSE]
    /\ AnalyzerUnchanged

\* Lines 300-306: SELECT pg_reload_conf(); a failure returns False.
RsbReload ==
    /\ AnalyzerAlive
    /\ analyzer.pc = "reload"
    /\ \E success \in BOOLEAN :
         analyzer' = [analyzer EXCEPT
             !.issued = @ \cup {<<"RELOAD", resize_step, success>>},
             !.pc = IF success THEN "restart" ELSE "record",
             !.success = FALSE]
    /\ AnalyzerUnchanged

\* Lines 310-316 and restart_postgresql (lines 336-352): pg_ctl restart; a
\* non-zero exit or an exception returns False.
RsbRestart ==
    /\ AnalyzerAlive
    /\ analyzer.pc = "restart"
    /\ \E restart_success \in BOOLEAN :
         analyzer' = [analyzer EXCEPT
             !.issued = @ \cup {<<"RESTART", resize_step, restart_success>>},
             !.pc = IF restart_success THEN "restart_pgbench" ELSE "record",
             !.success = FALSE]
    /\ AnalyzerUnchanged

\* Line 322 and restart_pgbench_test (lines 354-371): the subprocess
\* self.pgbench_process refers to is terminated and waited for when it is
\* running, and a new run_pgbench_test thread is started, whether or not the
\* thread started before is alive (lines 363-365).
RsbRestartPgbench ==
    /\ AnalyzerAlive
    /\ analyzer.pc = "restart_pgbench"
    /\ analyzer' = [analyzer EXCEPT
           !.issued = @ \cup {<<"PGBENCH", resize_step, TRUE>>},
           !.pgbench_threads =
               Append(terminate(analyzer), [pc |-> "started", proc |-> "none"]),
           !.pc = "verify"]
    /\ AnalyzerUnchanged

\* Lines 325-330: SHOW shared_buffers, whose outcome is only printed; the
\* method returns True.
RsbVerify ==
    /\ AnalyzerAlive
    /\ analyzer.pc = "verify"
    /\ \E success \in BOOLEAN :
         analyzer' = [analyzer EXCEPT
             !.issued = @ \cup {<<"SHOW", resize_step, success>>},
             !.pc = "record",
             !.success = TRUE]
    /\ AnalyzerUnchanged

\* Lines 264-275: the resize_event data point is put on the queue and
\* resize_index moves on, whatever resize_shared_buffers returned.
DrcRecord ==
    /\ AnalyzerAlive
    /\ analyzer.pc = "record"
    /\ analyzer' = [analyzer EXCEPT
           !.performance_data =
               Append(@, <<"resize_event", resize_sequence[resize_step],
                           analyzer.success, resize_step>>),
           !.resize_index = @ + 1,
           !.success = FALSE,
           !.pc = "interval"]
    /\ AnalyzerUnchanged

\* Lines 278-281: the wait for the next resize, left when stop_monitoring is
\* seen.
DrcInterval ==
    /\ AnalyzerAlive
    /\ analyzer.pc = "interval"
    /\ analyzer' = [analyzer EXCEPT
           !.pc = IF analyzer.stop_monitoring THEN "returned" ELSE "loop_head"]
    /\ AnalyzerUnchanged

\* run_pgbench_test, lines 100-108: the subprocess is launched and
\* self.pgbench_process refers to it.
PgbenchPopen(t) ==
    /\ AnalyzerAlive
    /\ analyzer.pgbench_threads[t].pc = "started"
    /\ analyzer' = [analyzer EXCEPT
           !.pgbench_threads[t] = [pc |-> "reading", proc |-> "running"],
           !.pgbench_process = t]
    /\ AnalyzerUnchanged

\* Lines 111-128: a line of the thread's subprocess is read; the loop is left
\* when stop_monitoring is set, otherwise a progress line with a tps and a
\* latency puts a data point on the queue.
PgbenchReadLine(t) ==
    /\ AnalyzerAlive
    /\ analyzer.pgbench_threads[t] = [pc |-> "reading", proc |-> "running"]
    /\ IF analyzer.stop_monitoring
       THEN analyzer' = [analyzer EXCEPT !.pgbench_threads[t].pc = "waiting"]
       ELSE /\ analyzer.samples < MaxSamples
            /\ analyzer' = [analyzer EXCEPT
                   !.performance_data = Append(@, <<"pgbench", analyzer.samples + 1>>),
                   !.samples = @ + 1]
    /\ AnalyzerUnchanged

\* Line 111: readline returns '' once the thread's subprocess has ended.
PgbenchEndOfOutput(t) ==
    /\ AnalyzerAlive
    /\ analyzer.pgbench_threads[t].pc = "reading"
    /\ analyzer.pgbench_threads[t].proc # "running"
    /\ analyzer' = [analyzer EXCEPT !.pgbench_threads[t].pc = "waiting"]
    /\ AnalyzerUnchanged

\* Lines 130-135: self.pgbench_process.wait() returns when the subprocess
\* self.pgbench_process refers to at that moment has ended.
PgbenchWait(t) ==
    /\ AnalyzerAlive
    /\ analyzer.pgbench_threads[t].pc = "waiting"
    /\ ~PollIsNone(analyzer)
    /\ analyzer' = [analyzer EXCEPT !.pgbench_threads[t].pc = "done"]
    /\ AnalyzerUnchanged

\* The subprocess ends by itself: its duration (-T 180) has elapsed or it
\* has lost its connections to the server.  It is no thread of the analyzer
\* and may outlive it.
PgbenchEnds(t) ==
    /\ analyzer.pgbench_threads[t].proc = "running"
    /\ analyzer' = [analyzer EXCEPT !.pgbench_threads[t].proc = "exited"]
    /\ AnalyzerUnchanged

\* monitor_system_metrics, line 156: `while not self.stop_monitoring`.
MonitorLoopHead ==
    /\ AnalyzerAlive
    /\ analyzer.monitor = "loop_head"
    /\ analyzer.stop_monitoring \/ analyzer.samples < MaxSamples
    /\ analyzer' = [analyzer EXCEPT
           !.monitor = IF analyzer.stop_monitoring THEN "stopped" ELSE "collecting"]
    /\ AnalyzerUnchanged

\* Lines 157-206: the metrics are collected (psutil.cpu_percent(interval=1)
\* blocks for a second) and the data point is put on the queue.
MonitorPut ==
    /\ AnalyzerAlive
    /\ analyzer.monitor = "collecting"
    /\ analyzer' = [analyzer EXCEPT
           !.performance_data = Append(@, <<"system_metrics", analyzer.samples + 1>>),
           !.samples = @ + 1,
           !.monitor = "loop_head"]
    /\ AnalyzerUnchanged

RunAnalysis == RunAnalysisStart \/ RunAnalysisFinally \/ RunAnalysisExit

signal_handler == SignalHandler \/ SignalHandlerSave

dynamic_resize_controller ==
    \/ DrcInitialWait \/ DrcLoopHead \/ RsbAlter \/ RsbReload \/ RsbRestart
    \/ RsbRestartPgbench \/ RsbVerify \/ DrcRecord \/ DrcInterval

run_pgbench_test(t) ==
    PgbenchPopen(t) \/ PgbenchReadLine(t) \/ PgbenchEndOfOutput(t) \/ PgbenchWait(t)

monitor_system_metrics == MonitorLoopHead \/ MonitorPut

NextAnalyzer ==
    \/ RunAnalysis
    \/ dynamic_resize_controller
    \/ \E t \in PgbenchThreads : run_pgbench_test(t) \/ PgbenchEnds(t)

\* The analyzer's main thread, resize controller and pgbench threads, without
\* a SIGINT.
SpecAnalyzer == InitPlain /\ [][NextAnalyzer]_vars

\* The same where the resize controller and the pgbench threads keep running;
\* the main thread may sleep on and a subprocess may run on.
SpecAnalyzerFair ==
    /\ SpecAnalyzer
    /\ WF_vars(dynamic_resize_controller)
    /\ \A t \in 1..(SeqLen + 1) : WF_vars(t \in PgbenchThreads /\ run_pgbench_test(t))

NextAnalyzerData ==
    RunAnalysis \/ signal_handler \/ dynamic_resize_controller \/ monitor_system_metrics

\* The analyzer's main thread with its SIGINT handler, resize controller and
\* system-metrics monitor: the threads that fill and save the queue.
SpecAnalyzerData == InitPlain /\ [][NextAnalyzerData]_vars

\* ------------------------------------------------------------------ sequential executor
\* ExecutePGCommand.execute_pgcommand of perf_test/ExecutePGCommand.py, called
\* by meru_design.py (line 224) with the pipeline CreatePGCommand planned for
\* a workload class.

\* The server profile of meru_design.py, as far as the planner reads it.
ExecutorServer ==
    [pgserver_hosturl |-> "localhost", pgserver_dbport |-> "5432",
     pgserver_dbname |-> "testdb", pgserver_testmode |-> "prepared",
     pgserver_vcore |-> 2, pgserver_client_Multiplier |-> 4,
     pgserver_thread_Multiplier |-> 4, pgserver_warmupduration |-> 120,
     pgserver_testduration |-> 3600, pgserver_RW_testduration |-> 300,
     pgserver_RO_fullCacheSF |-> 40, pgserver_RO_BorderLineSF |-> 40,
     pgserver_RW_fullcacheSF |-> 40, pgserver_RO_FixedSF |-> 0,
     pgserver_RW_FixedSF |-> 0]

\* What a subprocess the executor waits for did: it exited with a return code.
ExitCodes == 0..MaxReturnCode

ExecutorUnchanged ==
    UNCHANGED <<cfgVars, planner, sql, pgbench_stream, analyzer, orchVars, stop_event,
                controller, runnerVars, pg_running, fileVars, sqlVars>>

\* run_command (lines 199-221): the command is run with Popen and
\* communicate(); the return code of the subprocess is not looked at.  The
\* commands run so far, with the return code of each.
run_command(ran, key, returncode) == Append(ran, <<key, returncode>>)

\* meru_design.py lines 218-224 and execute_pgcommand lines 32-35: the
\* pipeline of a workload class is planned and passed in; create_testdb
\* (lines 74-108) drops and creates the database and raises when createdb
\* exits non-zero.
ExecCreateTestdb ==
    /\ executor.st = "idle"
    /\ \E testname \in TestCases \ {"Custom"}, returncode \in ExitCodes :
         executor' =
             [st |-> IF returncode = 0 THEN "running" ELSE "raised",
              testname |-> testname,
              pgcommands |->
                  PerfTest_pgcommand_to_execute(ExecutorServer, testname,
                                                "select1.sql", "/usr/bin").dict,
              next |-> 1,
              ran |-> run_command(<<>>, "createdb", returncode)]
    /\ ExecutorUnchanged

\* Lines 41-45 and execute_dbinit_test (lines 111-121): the initialize
\* command is run; what run_command returns is dropped.
ExecInitialize ==
    /\ executor.st = "running"
    /\ executor.next <= Len(executor.pgcommands)
    /\ executor.pgcommands[executor.next][1] = "initialize"
    /\ \E returncode \in ExitCodes :
         executor' = [executor EXCEPT
             !.ran = run_command(@, "initialize", returncode),
             !.next = @ + 1]
    /\ ExecutorUnchanged

\* Lines 46-55 and execute_test with warmup == "true" (lines 129-141): the
\* warmupruns command is run and its result files are loaded.
ExecWarmupruns ==
    /\ executor.st = "running"
    /\ executor.next <= Len(executor.pgcommands)
    /\ executor.pgcommands[executor.next][1] = "warmupruns"
    /\ \E returncode \in ExitCodes :
         executor' = [executor EXCEPT
             !.ran = run_command(@, "warmupruns", returncode),
             !.next = @ + 1]
    /\ ExecutorUnchanged

\* Lines 57-70 and execute_test with warmup == "false" (lines 143-192):
\* CHECKPOINT is run through psql, and a non-zero exit of it raises; then the
\* testruns command is run and its result files are loaded.
ExecTestruns ==
    /\ executor.st = "running"
    /\ executor.next <= Len(executor.pgcommands)
    /\ executor.pgcommands[executor.next][1] = "testruns"
    /\ \E checkpoint \in ExitCodes, returncode \in ExitCodes :
         executor' =
             IF checkpoint # 0
             THEN [executor EXCEPT
                      !.ran = run_command(@, "checkpoint", checkpoint),
                      !.st = "raised"]
             ELSE [executor EXCEPT
                      !.ran = run_command(run_command(@, "checkpoint", checkpoint),
                                          "testruns", returncode),
                      !.next = @ + 1]
    /\ ExecutorUnchanged

\* Line 37: the loop over pgcommands.items() has ended.
ExecReturn ==
    /\ executor.st = "running"
    /\ executor.next > Len(executor.pgcommands)
    /\ executor' = [executor EXCEPT !.st = "returned"]
    /\ ExecutorUnchanged

execute_pgcommand ==
    \/ ExecCreateTestdb \/ ExecInitialize \/ ExecWarmupruns \/ ExecTestruns
    \/ ExecReturn

\* The sequential executor alone, for every known workload class.
SpecExecutor == InitPlain /\ [][execute_pgcommand]_vars

\* ------------------------------------------------------------------ specification
Sequencer(k) ==
    \/ SeqIter(k) \/ SeqAlter(k) \/ SeqReload(k)
    \/ SeqResizeBegin(k) \/ SeqResizePoll(k)
    \/ SeqRestartBegin(k) \/ SeqRecover(k) \/ SeqSettle(k) \/ SeqShow(k)

Runner(k) ==
    \/ RunInitialize(k) \/ RunWarmupCheck(k) \/ RunLoopHead(k) \/ RunPopen(k)
    \/ RunReadStdout(k) \/ RunReadLoop(k) \/ RunReadStderr(k) \/ RunFinally(k)

Subprocess(k) == ProcStdout(k) \/ ProcStderr(k) \/ ProcExit(k)

Orchestrator ==
    \/ OrchEnsureDatabase \/ OrchStartWorkers \/ OrchJoinController
    \/ OrchKeyboardInterrupt \/ OrchJoinWorkers \/ OrchSetStop
    \/ OrchJoinWorkers2 \/ OrchCleanup

Next ==
    \/ Orchestrator
    \/ \E k \in Runs : Sequencer(k)
    \/ \E k \in Runs : Runner(k)
    \/ \E k \in Runs : Subprocess(k)

Spec == Init /\ [][Next]_vars

\* The steps of resize_controller when restart_required and dynamic_resize are
\* both False: the blocks of lines 591-608 and 611-644 are never entered.
SequencerPlain(k) == SeqIter(k) \/ SeqAlter(k) \/ SeqReload(k) \/ SeqShow(k)

NextPlain ==
    \/ Orchestrator
    \/ \E k \in Runs : SequencerPlain(k)
    \/ \E k \in Runs : Runner(k)
    \/ \E k \in Runs : Subprocess(k)

\* One workload class with the resize and restart blocks switched off.
SpecPlain == InitPlain /\ [][NextPlain]_vars

\* The runner threads are scheduled: a runner that can take a step of its own
\* (it is not blocked in a readline() on its subprocess) eventually takes it.
SpecRunnerFair == SpecPlain /\ \A k \in Runs : WF_vars(Runner(k))

NextRaise == NextPlain \/ \E k \in Runs : RunRaise(k)

\* One workload class, resize and restart blocks switched off, where a read
\* of the subprocess's pipes may raise.
SpecRaise == InitPlain /\ [][NextRaise]_vars

\* The steps of the runner up to its first readline() on a subprocess.
RunnerUntilRead(k) ==
    RunInitialize(k) \/ RunWarmupCheck(k) \/ RunLoopHead(k) \/ RunPopen(k)

\* The steps of run() when no Ctrl+C arrives.
OrchestratorUninterrupted ==
    \/ OrchEnsureDatabase \/ OrchStartWorkers \/ OrchJoinController
    \/ OrchJoinWorkers \/ OrchSetStop \/ OrchJoinWorkers2 \/ OrchCleanup

\* The steps of a run when no Ctrl+C arrives: run() stays in
\* controller_thread.join() (line 695) until the sequencer has ended.
NextRestart ==
    \/ OrchestratorUninterrupted
    \/ \E k \in Runs : Sequencer(k)
    \/ \E k \in Runs : Runner(k)
    \/ \E k \in Runs : Subprocess(k)

\* One workload class with restart_required set, where the sequencer thread
\* is scheduled: a step of its own is eventually taken.  Whether a postgres
\* process is seen again after pg_ctl restart is the server's doing, and
\* nothing is assumed of it.
SpecRestartFair ==
    /\ InitRestart
    /\ [][NextRestart]_vars
    /\ \A k \in Runs : WF_vars(Sequencer(k) /\ pg_running' = pg_running)

\* The steps of an uninterrupted experiment whose pgbench subprocesses write
\* nothing and do not exit: a runner that has launched one stays in
\* readline() (line 445) and outlives its run.
NextRuns ==
    \/ OrchestratorUninterrupted
    \/ \E k \in Runs : SequencerPlain(k)
    \/ \E k \in Runs : RunnerUntilRead(k)

\* The whole experiment, NumRuns workload classes one after the other, with
\* subprocesses that hang.
SpecRuns == InitRuns /\ [][NextRuns]_vars

\* The main thread and the sequencer threads are scheduled and their blocking
\* calls return (each has a timeout, or waits for a thread that has ended);
\* nothing is assumed of the runner threads.
SpecRunsFair ==
    /\ SpecRuns
    /\ WF_vars(OrchestratorUninterrupted)
    /\ \A k \in Runs : WF_vars(SequencerPlain(k))

\* ------------------------------------------------------------------ claims
\* The sequencer of run k went through its whole sequence: the last step's
\* SHOW shared_buffers was issued and the method reached its end.
SequenceDone(k) ==
    /\ controller[k].pc = "finished"
    /\ <<"SHOW", SeqLen>> \in issued[k]

\* The orchestrator has executed stop_event.set() (line 702) for run k.
StopSetByOrchestrator(k) ==
    \/ k < run
    \/ k = run /\ orchPc \in {"join_workers_2", "cleanup", "exited"}

C2_NoLaunchAfterSignal ==
    [][\A k \in Runs :
         (/\ worker[k].pc = "popen"
          /\ worker[k].cmd = "testruns"
          /\ worker'[k].pc = "read_stdout") => ~stop_event[k]]_vars

\* C2 (amended): after stop_event has been set the runner launches at most one
\* more subprocess, the one whose loop-condition check (line 536, or line 526
\* for the warmup) ran before the signal was set.
C2_AtMostOneLaunchAfterSignal ==
    \A k \in Runs : worker[k].late <= 1

\* C2 witness: a testruns subprocess was launched while the signal was set.
C2_Witness ==
    /\ worker[1].late = 1
    /\ worker[1].cmd = "testruns"
    /\ process[1].st = "running"
    /\ stop_event[1]

\* C3 (as stated): with stop_event set and a warmup or testruns subprocess in
\* flight, the runner is never suspended on the subprocess alone: whether or
\* not the subprocess writes a line or exits, the runner has a next step of
\* its own (a re-check of the signal) that leads to terminating it.
C3_RunnerNeverWaitsOnSubprocessOnceSignalled ==
    \A k \in Runs :
        (stop_event[k] /\ process[k].st = "running" /\ Alive) => ENABLED Runner(k)

\* C4 (as stated): when an ALTER SYSTEM statement of the sequencer has failed,
\* the cancellation signal of its run is set.
C4_AlterFailureSetsSignal ==
    \A k \in Runs : controller[k].failed > 0 => stop_event[k]

\* C5: when the ALTER SYSTEM of step i has failed, nothing else is issued for
\* step i or a later step (no reload, resize query, restart or SHOW,
\* no further ALTER SYSTEM) and no lifecycle event is emitted for them.
C5_AbortIssuesNothingFurther ==
    \A k \in Runs :
        controller[k].failed > 0 =>
            /\ \A e \in issued[k] :
                   e[2] < controller[k].failed \/ e = <<"ALTER", controller[k].failed>>
            /\ \A j \in 1..Len(alters[k]) : alters[k][j][1] <= controller[k].failed
            /\ \A j \in 1..Len(resize_events[k]) :
                   resize_events[k][j][3] < controller[k].failed
            /\ \A j \in 1..Len(restart_events[k]) :
                   restart_events[k][j][3] < controller[k].failed
            /\ ControllerTerminated(k)

\* C5 witness: the ALTER SYSTEM of the second step failed after a first step
\* that ran in full.
C5_Witness ==
    /\ controller[1].failed = 2
    /\ <<"SHOW", 1>> \in issued[1]
    /\ orchPc = "cleanup"

\* C6: the values for which ALTER SYSTEM was issued are a prefix of
\* shared_buffer_sequence: the j-th statement is for step j and its value.
C6_AltersArePrefixOfSequence ==
    \A k \in Runs :
        /\ Len(alters[k]) <= SeqLen
        /\ \A j \in 1..Len(alters[k]) :
               /\ alters[k][j][1] = j
               /\ alters[k][j][2] = shared_buffer_sequence[j]

\* C6 witness: every value of the sequence has been applied.
C6_Witness ==
    /\ Len(alters[1]) = SeqLen
    /\ controller[1].pc = "finished"

\* Number of events of the given status among the first n of a stream.
CountStatus(stream, status, n) ==
    Cardinality({j \in 1..n : stream[j][1] = status})

\* In every prefix of the stream there are at most as many "Completed" as
\* "Started" events, and each "Completed" carries the value (field 2) of the
\* last "Started" before it.
CompletedFollowsStarted(stream) ==
    \A n \in 1..Len(stream) :
        /\ CountStatus(stream, "Completed", n) <= CountStatus(stream, "Started", n)
        /\ stream[n][1] = "Completed" =>
               \E i \in 1..(n - 1) :
                   /\ stream[i][1] = "Started"
                   /\ \A m \in (i + 1)..(n - 1) : stream[m][1] # "Started"
                   /\ stream[i][2] = stream[n][2]

RECURSIVE IsSubSeq(_, _)
\* a is b with some elements left out.
IsSubSeq(a, b) ==
    IF a = <<>> THEN TRUE
    ELSE IF b = <<>> THEN FALSE
    ELSE IF a[1] = b[1] THEN IsSubSeq(Tail(a), Tail(b))
    ELSE IsSubSeq(a, Tail(b))

\* The rows of resize_timings.csv that belong to run k.
ResizeRowsOf(k) == SelectSeq(resize_file, LAMBDA row : row[3] = test_cases[k])

\* The rows the resize events of run k would make in the file.
ResizeRowsEmitted(k) ==
    [j \in 1..Len(resize_events[k]) |->
        <<resize_events[k][j][1], resize_events[k][j][2], test_cases[k]>>]

C8_RestartCompletedOnlyWhenRunning ==
    [][\A k \in Runs :
         (/\ Len(restart_events'[k]) > Len(restart_events[k])
          /\ restart_events'[k][Len(restart_events'[k])][1] = "Completed")
         => pg_running']_vars

\* The events a run emits that goes through the whole sequence with the
\* resize block enabled: "Started" then "Completed" for each value, in order.
ExpectedResizeEvents ==
    [j \in 1..(2 * SeqLen) |->
        <<IF j % 2 = 1 THEN "Started" ELSE "Completed",
          shared_buffer_sequence[(j + 1) \div 2],
          (j + 1) \div 2>>]

\* C9 (as stated): with restart disabled, a sequencer run that goes through
\* all n values (every ALTER SYSTEM succeeding) emits exactly n
\* "Started"/"Completed" resize pairs, one per value in order, and no restart
\* event.
C9_ExactlyOnePairPerValue ==
    \A k \in Runs :
        (~restart_required /\ SequenceDone(k)) =>
            /\ resize_events[k] = ExpectedResizeEvents
            /\ restart_events[k] = <<>>

\* C9 (amended): the same, for a configuration with restart disabled and
\* dynamic_resize enabled; with dynamic_resize disabled no resize event is
\* emitted at all.
C9_ExactlyOnePairPerValueWhenDynamic ==
    \A k \in Runs :
        (~restart_required /\ SequenceDone(k)) =>
            /\ resize_events[k] = IF dynamic_resize THEN ExpectedResizeEvents ELSE <<>>
            /\ restart_events[k] = <<>>

\* C9 witness: a full run with restart disabled and dynamic_resize enabled.
C9_Witness ==
    /\ ~restart_required
    /\ dynamic_resize
    /\ SequenceDone(1)
    /\ Len(resize_events[1]) = 2 * SeqLen

\* C10 (as stated): a dwell wait has elapsed before every ALTER SYSTEM, the
\* first included: before the j-th statement at least j dwells have run.
C10_DwellBeforeEveryStep ==
    \A k \in Runs : \A j \in 1..Len(alters[k]) : alters[k][j][3] >= j

\* C10 (amended): a dwell wait precedes every step except the first: exactly
\* j - 1 dwells have run when the j-th ALTER SYSTEM is issued, none before
\* the first.
C10_DwellBeforeEveryStepButFirst ==
    \A k \in Runs : \A j \in 1..Len(alters[k]) : alters[k][j][3] = j - 1

\* C10 witness: all values applied, the first without a dwell before it.
C10_Witness ==
    /\ Len(alters[1]) = SeqLen
    /\ alters[1][1][3] = 0
    /\ alters[1][SeqLen][3] = SeqLen - 1

\* C11: within one run of the runner, initialize and warmupruns are executed
\* at most once each; whenever a testruns subprocess has been launched,
\* initialize was executed once and succeeded and warmupruns (when the class
\* has one) was executed once; no warmup is in flight once a testruns
\* subprocess has been launched, and a testruns subprocess is launched only
\* when no earlier subprocess of the runner is still running.
C11_InitializeAndWarmupOnceBeforeTestruns ==
    \A k \in DOMAIN test_cases :
        /\ worker[k].inits <= 1
        /\ worker[k].warmups <= 1
        /\ worker[k].measured =>
               /\ worker[k].inits = 1
               /\ ~worker[k].init_failed
               /\ warmup_required(test_cases[k]) => worker[k].warmups = 1
               /\ worker[k].cmd # "warmupruns"
        /\ (worker[k].pc = "popen" /\ worker[k].cmd = "testruns") =>
               process[k].st \in {"none", "reaped"}

\* C11 witness: a testruns subprocess is running in a class with a warmup.
C11_Witness ==
    /\ warmup_required(test_cases[1])
    /\ worker[1].measured
    /\ worker[1].warmups = 1
    /\ worker[1].cmd = "testruns"
    /\ process[1].st = "running"

\* C12: when initialize has failed, the runner has returned, has launched no
\* warmupruns or testruns subprocess and has emitted no MetricSample.
C12_InitializeFailureLaunchesNothing ==
    \A k \in Runs :
        worker[k].init_failed =>
            /\ WorkerTerminated(k)
            /\ worker[k].warmups = 0
            /\ ~worker[k].measured
            /\ ~worker[k].sampled
            /\ process[k].st = "none"

\* C12 witness: initialize failed and the run went on to its teardown.
C12_Witness ==
    /\ worker[1].init_failed
    /\ worker[1].inits = 1
    /\ orchPc = "cleanup"

\* C13: a measurement iteration that ends (its subprocess exited, with any
\* exit code, or was cut short) does not end the loop: from the end of every
\* testruns iteration, either stop_event gets set or another testruns
\* subprocess is launched.
C13_LoopResumesAfterEveryIteration ==
    \A k \in Runs :
        (worker[k].pc = "finally" /\ worker[k].cmd = "testruns")
            ~> (stop_event[k]
                \/ (worker[k].pc = "read_stdout" /\ worker[k].cmd = "testruns"))

\* C13 witness: in a class without warmup, with the signal unset, the runner
\* is about to launch a testruns subprocess after an earlier one has ended.
C13_Witness ==
    /\ ~warmup_required(test_cases[1])
    /\ worker[1].pc = "popen"
    /\ worker[1].measured
    /\ process[1].st = "reaped"
    /\ ~stop_event[1]

\* The run k is in progress and has not reached its stop_event.set().
BeforeSetStop(k) ==
    \/ k > run
    \/ k = run /\ orchPc \in {"ensure_database", "sleep", "join_controller",
                                "join_workers", "set_stop"}

\* C14: the signal of a run is unset until the stop_event.set() of that run;
\* once set it is never cleared; and a step that sets the signal of a run
\* sets that of the run in progress and leaves the signal of every other run
\* as it was.
C14_FreshSignalPerRun ==
    /\ [](\A k \in Runs : BeforeSetStop(k) => ~stop_event[k])
    /\ [][\A k \in Runs :
             /\ stop_event[k] => stop_event'[k]
             /\ stop_event'[k] # stop_event[k] =>
                    /\ k = run
                    /\ \A j \in Runs \ {k} : stop_event'[j] = stop_event[j]]_vars

\* C14 witness: the second run is under way with its signal unset, its runner
\* reading a subprocess, while the signal of the first run is set.
C14_Witness ==
    /\ run = 2
    /\ stop_event[1]
    /\ ~stop_event[2]
    /\ worker[2].pc = "read_stdout"
    /\ controller[2].pc = "alter"

\* No thread and no subprocess of run k is left.
TornDown(k) ==
    /\ controller[k].pc \in {"idle", "finished", "aborted"}
    /\ worker[k].pc \in {"idle", "returned"}
    /\ process[k].st # "running"

\* C15 (as stated): when cleanup_database is called, and when the
\* ensure_database of the next class begins, the sequencer and the runner of
\* every run so far have ended and none of their subprocesses is running.
C15_NextClassOnlyAfterTeardown ==
    /\ orchPc = "cleanup" => TornDown(run)
    /\ orchPc = "ensure_database" => \A k \in 1..(run - 1) : TornDown(k)

C17_RemainingClassesAttempted ==
    orchPc = "exited" => run = Len(test_cases)

\* A command has the flag; the piece that follows the flag.
HasFlag(command, flag) == \E i \in 1..Len(command) : command[i] = flag
Arg(command, flag) ==
    command[(CHOOSE i \in 1..(Len(command) - 1) : command[i] = flag) + 1]

\* A planning call has returned a pipeline.
Planned == planner.st = "planned" /\ ~planner.result.raised

\* C19: for the class "Select1" the testruns command has -c 1 and -j 1 and
\* neither the initialize nor the testruns command has a -s flag, whatever
\* the core count and the multipliers of the profile (both CreatePGCommand
\* modules).
C19_Select1SingleConnectionNoScale ==
    (Planned /\ planner.testcase = "Select1") =>
        LET dict == planner.result.dict
        IN  /\ HasFlag(Get(dict, "testruns"), "-c")
            /\ Arg(Get(dict, "testruns"), "-c") = "1"
            /\ HasFlag(Get(dict, "testruns"), "-j")
            /\ Arg(Get(dict, "testruns"), "-j") = "1"
            /\ ~HasFlag(Get(dict, "testruns"), "-s")
            /\ ~HasFlag(Get(dict, "initialize"), "-s")

\* C19 witness: a Select1 pipeline planned for a profile whose core count and
\* client multiplier would give 6 connections.
C19_Witness ==
    /\ Planned
    /\ planner.testcase = "Select1"
    /\ planner.server.pgserver_vcore = 3
    /\ planner.server.pgserver_client_Multiplier = 4

\* The scale-factor multiplier of the profile (in halves) for a fully-cached
\* or borderline class.
ClassMultiplier(server, testcase) ==
    CASE testcase = "RO_FullyCached" -> server.pgserver_RO_fullCacheSF
      [] testcase = "RO_Borderline" -> server.pgserver_RO_BorderLineSF
      [] testcase = "RW_FullyCached" -> server.pgserver_RW_fullcacheSF

\* floor(multiplier x coreCount / 2), the multiplier in halves.
ExpectedScaleFactor(server, testcase) ==
    (ClassMultiplier(server, testcase) * server.pgserver_vcore) \div 4

ScaledClasses == {"RO_FullyCached", "RO_Borderline", "RW_FullyCached"}

\* Both the initialize and the testruns command carry `-s value`.
ScaleFlagIs(dict, value) ==
    /\ HasFlag(Get(dict, "initialize"), "-s")
    /\ Arg(Get(dict, "initialize"), "-s") = str(value)
    /\ HasFlag(Get(dict, "testruns"), "-s")
    /\ Arg(Get(dict, "testruns"), "-s") = str(value)

\* C20 (as stated): for RO_FullyCached, RO_Borderline and RW_FullyCached, for
\* every core count and multiplier, floor(multiplier x coreCount / 2) is the
\* -s argument of both the initialize and the testruns command.
C20_ScaleFactorInBothCommands ==
    (Planned /\ planner.testcase \in ScaledClasses) =>
        ScaleFlagIs(planner.result.dict,
                    ExpectedScaleFactor(planner.server, planner.testcase))

\* C20 (amended): the same whenever floor(multiplier x coreCount / 2) is at
\* least 1; when it is 0 (`if scale_factor:` is false) neither command has a
\* -s flag.
C20_ScaleFactorInBothCommandsWhenPositive ==
    (Planned /\ planner.testcase \in ScaledClasses) =>
        LET dict == planner.result.dict
            expected == ExpectedScaleFactor(planner.server, planner.testcase)
        IN  IF expected >= 1
            THEN ScaleFlagIs(dict, expected)
            ELSE /\ ~HasFlag(Get(dict, "initialize"), "-s")
                 /\ ~HasFlag(Get(dict, "testruns"), "-s")

\* C20 witness: RO_Borderline with multiplier 20.0 on 3 cores, scale factor 30.
C20_Witness ==
    /\ Planned
    /\ planner.testcase = "RO_Borderline"
    /\ planner.server.pgserver_RO_BorderLineSF = 40
    /\ planner.server.pgserver_vcore = 3
    /\ Arg(Get(planner.result.dict, "testruns"), "-s") = "30"

\* text is raw without its leading and trailing whitespace.
IsStripOf(text, raw) ==
    /\ text = <<>> \/ (text[1] \notin Whitespace /\ text[Len(text)] \notin Whitespace)
    /\ \E i \in 0..Len(raw) :
           /\ i + Len(text) <= Len(raw)
           /\ \A j \in 1..Len(raw) :
                  IF j > i /\ j <= i + Len(text)
                  THEN raw[j] = text[j - i]
                  ELSE raw[j] \in Whitespace

\* C18: a call of execute_sql whose psql exits or times out does not raise:
\* exit code 0 returns (True, stdout stripped), another exit code returns
\* (False, stderr stripped), a timeout returns (False, "SQL timeout").
C18_ExecuteSqlNeverRaisesForCommandFailure ==
    (sql.st = "returned" /\ sql.outcome.kind \in {"exit", "TimeoutExpired"}) =>
        /\ ~sql.result.raised
        /\ sql.outcome.kind = "TimeoutExpired" =>
               (~sql.result.success /\ sql.result.text = <<"SQL timeout">>)
        /\ (sql.outcome.kind = "exit" /\ sql.outcome.returncode = 0) =>
               (sql.result.success /\ IsStripOf(sql.result.text, sql.outcome.stdout))
        /\ (sql.outcome.kind = "exit" /\ sql.outcome.returncode # 0) =>
               (~sql.result.success /\ IsStripOf(sql.result.text, sql.outcome.stderr))

\* C18 witness: a DatabaseManager.execute_sql call whose psql exited non-zero
\* with a diagnostic surrounded by whitespace returned (False, diagnostic).
C18_Witness ==
    /\ sql.st = "returned"
    /\ sql.class = "DatabaseManager"
    /\ sql.outcome.kind = "exit"
    /\ sql.outcome.returncode = 1
    /\ sql.outcome.stderr = <<"t", "\n">>
    /\ sql.result = Returns(FALSE, <<"t">>)

\* C21: a pipeline that was returned holds initialize, then warmupruns when
\* the class is a read-only or read-write one (and only then), then testruns,
\* in this order and nothing else (both CreatePGCommand modules).
C21_WarmupPhaseOnlyForReadClasses ==
    Planned =>
        Keys(planner.result.dict) =
            IF planner.testcase \in WarmupClasses
            THEN <<"initialize", "warmupruns", "testruns">>
            ELSE <<"initialize", "testruns">>

\* C21 witness: the pipeline of the read-write class RW_FixedSF has a warmup
\* phase between initialize and testruns.
C21_Witness ==
    /\ Planned
    /\ planner.testcase = "RW_FixedSF"
    /\ Keys(planner.result.dict) = <<"initialize", "warmupruns", "testruns">>

\* C22: for every class but Select1, the testruns command has -c
\* floor(clientMultiplier x coreCount) and -j floor(threadMultiplier x
\* coreCount) (the multipliers in halves), and for a read-only class it has
\* the -S flag.
C22_CountsFollowCoreCount ==
    (Planned /\ planner.testcase # "Select1") =>
        LET testruns == Get(planner.result.dict, "testruns")
            server == planner.server
        IN  /\ HasFlag(testruns, "-c")
            /\ Arg(testruns, "-c") =
                   ToString((server.pgserver_client_Multiplier * server.pgserver_vcore) \div 2)
            /\ HasFlag(testruns, "-j")
            /\ Arg(testruns, "-j") =
                   ToString((server.pgserver_thread_Multiplier * server.pgserver_vcore) \div 2)
            /\ planner.testcase \in {"RO_FullyCached", "RO_Borderline", "RO_FixedSF"} =>
                   HasFlag(testruns, "-S")

\* C22 witness: RO_Borderline on 3 cores with client multiplier 0.5, thread
\* multiplier 1.0 and borderline multiplier 20.0: -c 1, -j 3, -s 30, -S and a
\* warmup phase.
C22_Witness ==
    /\ Planned
    /\ planner.testcase = "RO_Borderline"
    /\ planner.server.pgserver_vcore = 3
    /\ planner.server.pgserver_client_Multiplier = 1
    /\ planner.server.pgserver_thread_Multiplier = 2
    /\ planner.server.pgserver_RO_BorderLineSF = 40
    /\ Arg(Get(planner.result.dict, "testruns"), "-c") = "1"
    /\ Arg(Get(planner.result.dict, "testruns"), "-j") = "3"
    /\ Arg(Get(planner.result.dict, "testruns"), "-s") = "30"
    /\ HasFlag(Get(planner.result.dict, "testruns"), "-S")
    /\ HasKey(planner.result.dict, "warmupruns")

\* C23 (as stated): a planning call for a class that matches no known tag does
\* not raise; the pipeline it returns has no -s flag and has the counts
\* floor(clientMultiplier x coreCount) and floor(threadMultiplier x coreCount).
C23_UnknownClassPlansWithDefaults ==
    (planner.st = "planned" /\ planner.testcase = "Custom") =>
        /\ ~planner.result.raised
        /\ LET initialize == Get(planner.result.dict, "initialize")
               testruns == Get(planner.result.dict, "testruns")
               server == planner.server
           IN  /\ ~HasFlag(initialize, "-s")
               /\ ~HasFlag(testruns, "-s")
               /\ Arg(testruns, "-c") =
                      ToString((server.pgserver_client_Multiplier * server.pgserver_vcore) \div 2)
               /\ Arg(testruns, "-j") =
                      ToString((server.pgserver_thread_Multiplier * server.pgserver_vcore) \div 2)

\* C24 (as stated): the last piece of every command of a returned pipeline is
\* the database name of the server profile.
C24_EveryCommandEndsWithProfileDatabase ==
    Planned =>
        \A i \in 1..Len(planner.result.dict) :
            LET command == planner.result.dict[i][2]
            IN  command[Len(command)] = planner.server.pgserver_dbname

\* The word is an unsigned decimal numeral: digits, with at most one point.
IsDecimal(word) ==
    /\ \A i \in 1..Len(word) : word[i] \in Digits \cup {"."}
    /\ \E i \in 1..Len(word) : word[i] \in Digits
    /\ Cardinality({i \in 1..Len(word) : word[i] = "."}) <= 1

\* What a word starts with up to its first character that is neither a digit
\* nor a point.
NumeralOf(word) ==
    LET n == CHOOSE m \in 0..Len(word) :
                 /\ \A i \in 1..m : word[i] \in Digits \cup {"."}
                 /\ m = Len(word) \/ word[m + 1] \notin Digits \cup {"."}
    IN  SubSeq(word, 1, n)

\* The progress grammar `progress: <float> s, <float> tps, lat <float> ms
\* stddev <float>` is found at word i of the line.
GrammarAt(line, i) ==
    /\ i + 9 <= Len(line)
    /\ <<line[i], line[i + 2], line[i + 4], line[i + 5], line[i + 7], line[i + 8]>>
           = <<W("progress:"), W("s,"), W("tps,"), W("lat"), W("ms"), W("stddev")>>
    /\ IsDecimal(line[i + 1])
    /\ IsDecimal(line[i + 3])
    /\ IsDecimal(line[i + 6])
    /\ IsDecimal(NumeralOf(line[i + 9]))

MatchesGrammar(line) == \E i \in 1..Len(line) : GrammarAt(line, i)

RECURSIVE Pow10(_)
Pow10(n) == IF n = 0 THEN 1 ELSE 10 * Pow10(n - 1)

\* The number <<m, d>> (m / 10^d) is the number the numeral writes.
SameNumber(number, numeral) ==
    LET digits == SelectSeq(numeral, LAMBDA c : c # ".")
        decimals ==
            Cardinality({i \in 1..Len(numeral) : \E j \in 1..(i - 1) : numeral[j] = "."})
    IN  number[1] * Pow10(decimals) = DigitsValue(digits) * Pow10(number[2])

\* C25: the line of stderr an _execute_pgbench_command call has just read
\* made exactly one write_line call when it matches the progress grammar,
\* with the run's class, the phase tag of the command ("warmup" for
\* warmupruns, "measurement" for testruns) and the line's four numbers, and
\* made none when it does not match; tps_file never has more rows than
\* lines were read.
C25_OneSamplePerProgressLine ==
    (pgbench_stream.st # "idle" /\ pgbench_stream.lines > 0) =>
        LET line == pgbench_stream.line
            emitted == pgbench_stream.emitted
        IN  /\ Len(pgbench_stream.tps_file) <= pgbench_stream.lines
            /\ IF MatchesGrammar(line)
               THEN /\ Len(emitted) = 1
                    /\ LET sample == emitted[1]
                           i == CHOOSE j \in 1..Len(line) : GrammarAt(line, j)
                       IN  /\ sample[1] = pgbench_stream.test_case
                           /\ sample[2] = IF pgbench_stream.cmd = "warmupruns"
                                          THEN "warmup" ELSE "measurement"
                           /\ SameNumber(sample[3], line[i + 1])
                           /\ SameNumber(sample[4], line[i + 3])
                           /\ SameNumber(sample[5], line[i + 6])
                           /\ SameNumber(sample[6], NumeralOf(line[i + 9]))
               ELSE emitted = <<>>

\* C25 witness: a testruns subprocess wrote `progress: 10.0 s, 500.2 tps, lat
\* 2.500 ms stddev 0.300`: one sample with tps 500.2, latency 2.5, stddev
\* 0.3, tagged measurement, and its row is in tps_file.
C25_Witness ==
    /\ pgbench_stream.st = "reading"
    /\ pgbench_stream.cmd = "testruns"
    /\ pgbench_stream.lines = 1
    /\ pgbench_stream.line =
           ProgressLine(<<"1", "0", ".", "0">>, <<"5", "0", "0", ".", "2">>,
                        <<"2", ".", "5", "0", "0">>, <<"0", ".", "3", "0", "0">>)
    /\ pgbench_stream.emitted =
           <<<<"RO_Borderline", "measurement", <<10, 0>>, <<5002, 1>>, <<25, 1>>, <<3, 1>>>>>>
    /\ pgbench_stream.tps_file = pgbench_stream.emitted

\* C26 (as stated): a failed reload does not cut the step short: for every
\* step of the analyzer's sequencer that has ended and whose pg_reload_conf()
\* failed, the restart of that step was carried out (pg_ctl restart issued,
\* and the pgbench test restarted when it succeeded), as after a successful
\* reload.
C26_ReloadFailureStillCompletesStep ==
    \A i \in 1..analyzer.resize_index :
        <<"RELOAD", i, FALSE>> \in analyzer.issued =>
            /\ \E restart_success \in BOOLEAN :
                   <<"RESTART", i, restart_success>> \in analyzer.issued
            /\ <<"RESTART", i, TRUE>> \in analyzer.issued =>
                   <<"PGBENCH", i, TRUE>> \in analyzer.issued

\* C27 (as stated): a resize "Completed" event is emitted only when the last
\* answer of SELECT pg_resize_shared_buffers() for the step was a success
\* with the value "t".
C27_ResizeCompletedOnlyAfterTrue ==
    [][\A k \in Runs :
         (/\ Len(resize_events'[k]) > Len(resize_events[k])
          /\ resize_events'[k][Len(resize_events'[k])][1] = "Completed")
         => (controller[k].resize_success /\ controller[k].resize_result = "t")]_vars

\* C28 (as stated): once the initialize phase of a run has failed, the
\* sequencer of that run issues no further ALTER SYSTEM: the remaining values
\* of the sequence are not applied.
C28_InitializeFailureStopsSequencer ==
    [][\A k \in Runs : worker[k].init_failed => alters'[k] = alters[k]]_vars

\* C29: the cancellation signal is changed only by the orchestrator's
\* stop_event.set(); a step of the runner or of its subprocess (an iteration
\* that ends, whatever its exit code) leaves the sequencer where it is and
\* issues no statement; a step of the sequencer (a reload or a SHOW that
\* fails, a resize or restart event whose write fails) leaves the runner and
\* its subprocess where they are.
C29_FailuresLeaveSiblingAlone ==
    [][/\ stop_event' # stop_event => orchPc = "set_stop"
       /\ \A k \in Runs :
            /\ (worker'[k] # worker[k] \/ process'[k] # process[k]) =>
                   (controller' = controller /\ sqlVars' = sqlVars /\ fileVars' = fileVars)
            /\ (controller'[k] # controller[k] \/ fileVars' # fileVars) =>
                   runnerVars' = runnerVars]_vars

\* C29 witness: a telemetry write has failed and a measurement iteration has
\* ended on its own, and still the signal is unset, the runner is about to
\* launch the next iteration and the sequencer is at its second value.
C29_Witness ==
    /\ write_failures = 1
    /\ worker[1].measured
    /\ worker[1].pc = "popen"
    /\ process[1].st = "reaped"
    /\ ~stop_event[1]
    /\ controller[1].index = 2
    /\ controller[1].pc = "alter"

\* C30: when the sequencer comes out of the loop head of a step (the
\* is_set() check and the dwell) with stop_event set, it ends without having
\* counted a full dwell; and once it has ended it issues nothing more: no
\* ALTER SYSTEM for that step or a later one, no other statement, no event.
C30_DwellInterruptedByCancellation ==
    [][\A k \in Runs :
         /\ (controller[k].pc = "iter" /\ stop_event[k] /\ controller'[k] # controller[k]) =>
                /\ controller'[k].pc = "finished"
                /\ controller'[k].dwells = controller[k].dwells
                /\ alters'[k] = alters[k]
         /\ ControllerTerminated(k) =>
                /\ controller'[k] = controller[k]
                /\ alters'[k] = alters[k]
                /\ issued'[k] = issued[k]
                /\ resize_events'[k] = resize_events[k]
                /\ restart_events'[k] = restart_events[k]]_vars

\* C30 witness: the signal was set (after Ctrl+C) while the sequencer was in
\* the dwell before its second step: it has ended with one ALTER SYSTEM
\* issued and no dwell run in full.
C30_Witness ==
    /\ stop_event[1]
    /\ controller[1].pc = "finished"
    /\ controller[1].index = 2
    /\ controller[1].dwells = 0
    /\ Len(alters[1]) = 1
    /\ <<"SHOW", 1>> \in issued[1]
\* The fixed-scale-factor classes and the profile value each of them reads.
FixedSFClasses == {"RO_FixedSF", "RW_FixedSF"}
ConfiguredFixedSF(server, testcase) ==
    IF testcase = "RO_FixedSF" THEN server.pgserver_RO_FixedSF
    ELSE server.pgserver_RW_FixedSF

\* C31 (as stated): for RO_FixedSF and RW_FixedSF the configured scale factor,
\* whatever its value (0 included), is the -s argument of both the initialize
\* and the testruns command.
C31_FixedScaleFactorVerbatim ==
    (Planned /\ planner.testcase \in FixedSFClasses) =>
        ScaleFlagIs(planner.result.dict,
                    ConfiguredFixedSF(planner.server, planner.testcase))

\* C31 (amended): the same for every configured value but 0; when the
\* configured value is 0 (`if scale_factor:` is false) neither command has a
\* -s flag.
C31_FixedScaleFactorVerbatimWhenNonZero ==
    (Planned /\ planner.testcase \in FixedSFClasses) =>
        LET dict == planner.result.dict
            configured == ConfiguredFixedSF(planner.server, planner.testcase)
        IN  IF configured # 0
            THEN ScaleFlagIs(dict, configured)
            ELSE /\ ~HasFlag(Get(dict, "initialize"), "-s")
                 /\ ~HasFlag(Get(dict, "testruns"), "-s")

\* C31 witness: RW_FixedSF planned for a profile whose fixed read-write scale
\* factor is 50 and whose fixed read-only one is 0: both commands have -s 50.
C31_Witness ==
    /\ Planned
    /\ planner.testcase = "RW_FixedSF"
    /\ planner.server.pgserver_RW_FixedSF = 50
    /\ planner.server.pgserver_RO_FixedSF = 0
    /\ Arg(Get(planner.result.dict, "initialize"), "-s") = "50"
    /\ Arg(Get(planner.result.dict, "testruns"), "-s") = "50"

\* C32: a warmupruns command equals the testruns command in every piece that
\* precedes -T, then has -T, the warmup duration and the database name the
\* testruns command ends with; the duration of a testruns command is the
\* read-write duration for the RW_ classes and the generic measurement
\* duration for every other class (both CreatePGCommand modules).
C32_WarmupCopiesTestrunsUpToDuration ==
    Planned =>
        LET dict == planner.result.dict
            server == planner.server
            testruns == Get(dict, "testruns")
            n == Len(testruns)
        IN  /\ n >= 3
            /\ testruns[n - 2] = "-T"
            /\ testruns[n - 1] =
                   IF planner.testcase \in {"RW_FullyCached", "RW_FixedSF"}
                   THEN ToString(server.pgserver_RW_testduration)
                   ELSE ToString(server.pgserver_testduration)
            /\ \A i \in 1..(n - 3) : testruns[i] # "-T"
            /\ HasKey(dict, "warmupruns") =>
                   LET warmupruns == Get(dict, "warmupruns")
                   IN  /\ Len(warmupruns) = n
                       /\ \A i \in 1..(n - 3) : warmupruns[i] = testruns[i]
                       /\ warmupruns[n - 2] = "-T"
                       /\ warmupruns[n - 1] = ToString(server.pgserver_warmupduration)
                       /\ warmupruns[n] = testruns[n]

\* C32 witness: the pipeline of RW_FixedSF with scale factor 50: the testruns
\* command runs for the read-write duration, the warmupruns command for the
\* warmup duration, and both carry -s 50.
C32_Witness ==
    /\ Planned
    /\ planner.testcase = "RW_FixedSF"
    /\ planner.server.pgserver_RW_FixedSF = 50
    /\ HasKey(planner.result.dict, "warmupruns")
    /\ Arg(Get(planner.result.dict, "warmupruns"), "-T") = "120"
    /\ Arg(Get(planner.result.dict, "warmupruns"), "-s") = "50"
    /\ Arg(Get(planner.result.dict, "testruns"), "-T") = "300"

\* A pgbench subprocess launched by the analyzer is running.
PgbenchRunning == \E t \in PgbenchThreads : analyzer.pgbench_threads[t].proc = "running"

\* resize_shared_buffers of step i is past its restart of the service: the
\* restart succeeded and restart_pgbench_test is next, or the method has
\* returned False (ALTER SYSTEM, the reload or pg_ctl restart reported
\* failure).
PastServiceRestart(i) ==
    /\ resize_step = i
    /\ \/ analyzer.pc = "restart_pgbench"
       \/ analyzer.pc = "record" /\ ~analyzer.success

C34_InitializeFailureIsFatal ==
    executor.st # "idle" =>
        \A i \in 1..Len(executor.ran) :
            (executor.ran[i][1] = "initialize" /\ executor.ran[i][2] # 0) =>
                \A j \in (i + 1)..Len(executor.ran) :
                    executor.ran[j][1] \notin {"warmupruns", "testruns"}

\* C35 (as stated): when SIGINT stopped the run and the process has exited,
\* every data point the queue held when the signal arrived is a row of the
\* CSV file.
C35_SignalSaveNotOverwritten ==
    (analyzer.main = "exited" /\ analyzer.sigint.received) =>
        \A i \in 1..Len(analyzer.sigint.queued) :
            \E j \in 1..Len(analyzer.csv_file) :
                analyzer.csv_file[j] = analyzer.sigint.queued[i]

\* The run_pgbench_test threads whose subprocess is alive.
AlivePgbench == {t \in PgbenchThreads : analyzer.pgbench_threads[t].proc = "running"}

\* C36 (as stated): at most one pgbench subprocess launched by the analyzer is
\* alive, and self.pgbench_process refers to it (a launch and the assignment
\* of its Popen object are one step, so the subprocess launched last is the
\* one referred to).
C36_AtMostOnePgbenchAlive ==
    /\ Cardinality(AlivePgbench) <= 1
    /\ \A t \in AlivePgbench : analyzer.pgbench_process = t

\* C37 (as stated): while stop_monitoring is set no pgbench subprocess of the
\* analyzer is running: the one that was running when the flag was set has
\* been terminated and none has been launched since, wherever the resize
\* controller was when the flag was set.
C37_NoPgbenchOnceStopped ==
    analyzer.stop_monitoring => AlivePgbench = {}

\* The runner is inside _execute_pgbench_command, between Popen and the end
\* of the finally block.
InExecutePgbenchCommand(k) ==
    worker[k].pc \in {"read_stdout", "read_loop", "read_stderr", "finally"}

\* C38 (as stated): a warmup or measurement subprocess of a Runner that is
\* running, or has exited and is not reaped, belongs to the
\* _execute_pgbench_command call in progress: once that call is left, by the
\* end of the output, by cancellation or by an exception, and so before the
\* next launch and before the Runner ends, its subprocess is reaped.
C38_SubprocessReapedOnEveryExitPath ==
    \A k \in Runs :
        process[k].st \in {"running", "exited"} => InExecutePgbenchCommand(k)

\* An event stream is an alternation "Started", "Completed", ... in which
\* each "Completed" carries the value and the step of the "Started" before it.
Alternates(events) ==
    \A j \in 1..Len(events) :
        IF j % 2 = 1
        THEN events[j][1] = "Started"
        ELSE /\ events[j][1] = "Completed"
             /\ events[j][2] = events[j - 1][2]
             /\ events[j][3] = events[j - 1][3]

\* The restart events of step i of run k are emitted after the resize pair
\* of step i and before any event of a later step.
RestartPairInItsStep(k) ==
    /\ \A j \in 1..Len(restart_events[k]) :
          dynamic_resize =>
              \E r \in 1..Len(resize_events[k]) :
                  /\ resize_events[k][r][1] = "Completed"
                  /\ resize_events[k][r][3] = restart_events[k][j][3]
    /\ \A i \in 1..SeqLen :
          (\/ \E r \in 1..Len(resize_events[k]) : resize_events[k][r][3] > i
           \/ \E j \in 1..Len(restart_events[k]) : restart_events[k][j][3] > i)
          => \E j \in 1..Len(restart_events[k]) :
                 restart_events[k][j] = <<"Completed", shared_buffer_sequence[i], i>>

\* The last restart event of run k is a "Started": its restart is under way.
RestartUnderWay(k) == Len(restart_events[k]) % 2 = 1

\* The safety part of C39: alternation, equal values and the place of the
\* restart pair within its step.
RestartEventsBracketed ==
    restart_required =>
        \A k \in Runs : Alternates(restart_events[k]) /\ RestartPairInItsStep(k)

\* C39 (as stated): with restart_required set, the restart events of a run
\* alternate "Started", "Completed" with equal values, the pair of step i
\* comes after the resize pair of step i and before any event of step i + 1,
\* and every "Started" is eventually followed by its "Completed".
C39_RestartEventsWellBracketed ==
    /\ []RestartEventsBracketed
    /\ \A k \in Runs : RestartUnderWay(k) ~> ~RestartUnderWay(k)

====
